---- MODULE Spec2Model ----
(***************************************************************************)
(* Live transcription session pipeline of parakeet-mlx_guiapi:             *)
(*   live/websocket_handler.py  TranscriptionWorker, live_transcribe       *)
(*   live/session.py            LiveTranscriptionSession                   *)
(* Two threads share the session objects: the receive loop of              *)
(* live_transcribe (one action per client message, the whole handler) and  *)
(* the worker thread of TranscriptionWorker (one action per stretch of     *)
(* _process_loop between two blocking calls: queue.get, the provider call, *)
(* the local diarizer call, one embedding extraction).                     *)
(***************************************************************************)
EXTENDS Integers, Sequences, FiniteSets, TLC

(***************************************************************************)
(* Bounds of the model                                                     *)
(***************************************************************************)
\* audio_chunk messages the client sends on one connection
MaxChunks == 3
\* other client messages (config, export, clear, malformed) on one connection
MaxControl == 1

(***************************************************************************)
(* Program constants                                                       *)
(***************************************************************************)
\* session.py:118  _embedding_similarity_threshold = 0.45 = 9/20
DefaultThreshold == <<9, 20>>
\* session.py:246  stored * 0.8 + embedding * 0.2, as 4/5 and 1/5
SmoothOld == 4
SmoothNew == 1
SmoothDen == 5
\* session.py:38-47
SPEAKER_COLORS ==
  << "#E3F2FD", "#FFF3E0", "#E8F5E9", "#FCE4EC",
     "#F3E5F5", "#FFFDE7", "#E0F7FA", "#FBE9E7" >>

PARAKEET == "parakeet"
DEEPGRAM == "deepgram"
\* ProviderType(value) succeeds exactly for these (providers/base.py:14-17)
ProviderTypes == {PARAKEET, DEEPGRAM}

None == [prefix |-> "None", num |-> -1]
NoModel == "None"
\* websocket_handler.py:239  config.get("deepgram_model", "nova-3")
DefaultDeepgramModel == "nova-3"

(***************************************************************************)
(* Speaker labels and identities.  A label "SPEAKER_07" is the record      *)
(* [prefix |-> "SPEAKER_", num |-> 7]; a label without a number has        *)
(* num = -1.                                                               *)
(***************************************************************************)
Label(p, n) == [prefix |-> p, num |-> n]
SPEAKER_00 == Label("SPEAKER_", 0)
SPEAKER_01 == Label("SPEAKER_", 1)
Unknown == Label("Unknown", -1)

\* session.py:250  f"GLOBAL_SPEAKER_{self._next_global_speaker_id:02d}"
GlobalId(n) == Label("GLOBAL_SPEAKER_", n)

(***************************************************************************)
(* Insertion-ordered dicts (Python dict) as sequences of [key, val].       *)
(***************************************************************************)
DictKeys(d) == {d[i].key : i \in 1..Len(d)}
DictHas(d, k) == \E i \in 1..Len(d) : d[i].key = k
DictIndex(d, k) == CHOOSE i \in 1..Len(d) : d[i].key = k
DictGet(d, k) == d[DictIndex(d, k)].val
\* d[k] = v : replaces the value in place, or appends a new key
DictSet(d, k, v) ==
  IF DictHas(d, k)
  THEN [d EXCEPT ![DictIndex(d, k)] = [key |-> k, val |-> v]]
  ELSE Append(d, [key |-> k, val |-> v])

(***************************************************************************)
(* Voice embeddings.  An observed embedding is an integer vector <<x, y>>; *)
(* a stored one is the exact rational vector (x/d, y/d), kept in lowest    *)
(* terms.  Cosine similarity does not depend on d.                         *)
(***************************************************************************)
RECURSIVE Gcd(_, _)
Gcd(a, b) == IF b = 0 THEN a ELSE Gcd(b, a % b)
Abs(a) == IF a < 0 THEN -a ELSE a

Reduce(v) ==
  LET g == Gcd(Gcd(Abs(v.x), Abs(v.y)), v.d)
  IN [x |-> v.x \div g, y |-> v.y \div g, d |-> v.d \div g]

Stored(e) == [x |-> e[1], y |-> e[2], d |-> 1]

\* An update that replaces the stored vector by the observed one
SmoothReplaces(old, e) == Stored(e)
\* session.py:245-247  self._speaker_embeddings[id] * 0.8 + embedding * 0.2
Smooth(old, e) ==
  Reduce([x |-> SmoothOld * old.x + SmoothNew * old.d * e[1],
          y |-> SmoothOld * old.y + SmoothNew * old.d * e[2],
          d |-> SmoothDen * old.d])

\* np.dot(embedding, known) up to the positive factor 1/d
Dot(e, k) == e[1] * k.x + e[2] * k.y
Norm2(k) == k.x * k.x + k.y * k.y
ENorm2(e) == e[1] * e[1] + e[2] * e[2]

\* sign of a/b - c/d for a, c >= 0 and b, d > 0, by continued fractions
RECURSIVE RatCmp(_, _, _, _)
RatCmp(a, b, c, d) ==
  LET qa == a \div b
      qc == c \div d
      ra == a % b
      rc == c % d
  IN IF qa < qc THEN -1
     ELSE IF qa > qc THEN 1
     ELSE IF ra = 0 /\ rc = 0 THEN 0
     ELSE IF ra = 0 THEN -1
     ELSE IF rc = 0 THEN 1
     ELSE RatCmp(d, rc, b, ra)

\* cos(e, k1) > cos(e, k2)
SimGreater(e, k1, k2) ==
  LET d1 == Dot(e, k1)
      d2 == Dot(e, k2)
  IN IF d1 >= 0 /\ d2 >= 0 THEN RatCmp(d1 * d1, Norm2(k1), d2 * d2, Norm2(k2)) = 1
     ELSE IF d1 >= 0 THEN TRUE
     ELSE IF d2 >= 0 THEN FALSE
     ELSE RatCmp(d1 * d1, Norm2(k1), d2 * d2, Norm2(k2)) = -1

\* cos(e, k) >= p/q  for the threshold thr = <<p, q>>, q > 0
SimAtLeast(e, k, thr) ==
  LET dt == Dot(e, k)
      p == thr[1]
      q == thr[2]
  IN IF dt >= 0 /\ p <= 0 THEN TRUE
     ELSE IF dt >= 0 THEN RatCmp(dt * dt, ENorm2(e) * Norm2(k), p * p, q * q) >= 0
     ELSE IF p >= 0 THEN FALSE
     ELSE RatCmp(dt * dt, ENorm2(e) * Norm2(k), p * p, q * q) <= 0

\* A loop that lets a later identity of equal similarity take over
RECURSIVE BestMatchFromLatest(_, _, _, _)
BestMatchFromLatest(embs, e, i, b) ==
  IF i > Len(embs) THEN b
  ELSE LET better == IF b = 0 THEN Dot(e, embs[i].val) > 0
                     ELSE ~SimGreater(e, embs[b].val, embs[i].val)
       IN BestMatchFromLatest(embs, e, i + 1, IF better THEN i ELSE b)
\* The loop of _match_speaker_to_known (session.py:224-233): b is the index
\* of best_match so far (0 for None, best_similarity = 0.0).
RECURSIVE BestMatchFrom(_, _, _, _)
BestMatchFrom(embs, e, i, b) ==
  IF i > Len(embs) THEN b
  ELSE LET better == IF b = 0 THEN Dot(e, embs[i].val) > 0
                     ELSE SimGreater(e, embs[i].val, embs[b].val)
       IN BestMatchFrom(embs, e, i + 1, IF better THEN i ELSE b)

\* _match_speaker_to_known: the matched identity, or None
MatchSpeakerToKnown(embs, e, thr) ==
  IF Len(embs) = 0 THEN None
  ELSE LET b == BestMatchFrom(embs, e, 1, 0)
       IN IF b = 0 THEN None
          ELSE IF SimAtLeast(e, embs[b].val, thr) THEN embs[b].key
          ELSE None

(***************************************************************************)
(* Text.  A text is the sequence of its whitespace-separated tokens.       *)
(***************************************************************************)
UNK == "<unk>"
\* clean_transcription_text (session.py:62-69): drops the <unk> tokens and
\* joins what is left with single spaces
CleanTranscriptionText(text) == SelectSeq(text, LAMBDA t : t # UNK)

(***************************************************************************)
(* LiveTranscriptionSession objects                                        *)
(***************************************************************************)
SessionId == "sid"
NoSession == [session_id |-> "none"]
NoEmbedding == << >>

\* LiveTranscriptionSession.__init__ (session.py:80-129)
NewSession(sid, diar, ptype, pconfig) ==
  [ session_id |-> sid,
    enable_diarization |-> diar,
    provider_type |-> ptype,
    provider_config |-> pconfig,
    speaker_color_map |-> << >>,
    messages |-> << >>,
    speaker_embeddings |-> << >>,
    next_global_speaker_id |-> 0,
    embedding_similarity_threshold |-> DefaultThreshold,
    local_diarization_available |-> "None" ]

\* provider_config.get('model')
ConfigModel(pconfig) == pconfig.model

\* A resolution that gives no identity to a label without an embedding
GetOrCreateEmbeddedSpeakerId(s, e) ==
  IF e = NoEmbedding THEN [s |-> s, id |-> Unknown]
  ELSE LET matched == MatchSpeakerToKnown(s.speaker_embeddings, e,
                                          s.embedding_similarity_threshold)
       IN IF matched # None
          THEN [ s |-> [s EXCEPT !.speaker_embeddings =
                          DictSet(@, matched, Smooth(DictGet(@, matched), e))],
                 id |-> matched ]
          ELSE [ s |-> [s EXCEPT !.next_global_speaker_id = @ + 1,
                                 !.speaker_embeddings =
                                   DictSet(@, GlobalId(s.next_global_speaker_id), Stored(e))],
                 id |-> GlobalId(s.next_global_speaker_id) ]
\* _get_or_create_global_speaker_id (session.py:239-256): the session
\* object after the call and the identity returned
GetOrCreateGlobalSpeakerId(s, e) ==
  LET matched == IF e # NoEmbedding
                 THEN MatchSpeakerToKnown(s.speaker_embeddings, e,
                                          s.embedding_similarity_threshold)
                 ELSE None
  IN IF matched # None
     THEN [ s |-> [s EXCEPT !.speaker_embeddings =
                     DictSet(@, matched, Smooth(DictGet(@, matched), e))],
            id |-> matched ]
     ELSE LET gid == GlobalId(s.next_global_speaker_id)
              s1 == [s EXCEPT !.next_global_speaker_id = @ + 1]
          IN [ s |-> IF e # NoEmbedding
                     THEN [s1 EXCEPT !.speaker_embeddings = DictSet(@, gid, Stored(e))]
                     ELSE s1,
               id |-> gid ]

\* get_speaker_color (session.py:258-263): the session after the call
ColorIndex(s) == Len(s.speaker_color_map) % Len(SPEAKER_COLORS)
GetSpeakerColor(s, sid) ==
  IF DictHas(s.speaker_color_map, sid) THEN s
  ELSE [s EXCEPT !.speaker_color_map =
          Append(@, [key |-> sid, val |-> SPEAKER_COLORS[ColorIndex(s) + 1]])]

SpeakerName(n) == [prefix |-> "Speaker ", num |-> n]
\* get_speaker_name (session.py:265-282), on a session whose colour map
\* already holds the speaker (line 267-268 sees to that)
GetSpeakerName(s, sid) ==
  IF sid.prefix \in {"GLOBAL_SPEAKER_", "SPEAKER_"} /\ sid.num >= 0
  THEN SpeakerName(sid.num + 1)
  ELSE IF DictHas(s.speaker_color_map, sid)
       THEN SpeakerName(DictIndex(s.speaker_color_map, sid))
       ELSE sid

\* Times are integers counting milliseconds.
\* A message time that leaves the chunk's offset out
AdjustedNoOffset(chunk_start_time, t) == t
\* adjusted_start, adjusted_end (session.py:342-343)
Adjusted(chunk_start_time, t) == chunk_start_time + t

\* The loop of process_audio_chunk over result.segments (session.py:333-362):
\* the session after it and the batch returned.  chunk is the number of the
\* chunk the message comes from (not a field of TranscriptionMessage: kept
\* to tell the chunks' messages apart).
RECURSIVE BuildMessages(_, _, _, _, _, _)
BuildMessages(s, segs, i, chunk_start_time, chunk, batch) ==
  IF i > Len(segs) THEN [s |-> s, batch |-> batch]
  ELSE LET seg == segs[i]
           cleaned_text == CleanTranscriptionText(seg.text)
           speaker_id == IF seg.speaker = None THEN SPEAKER_00 ELSE seg.speaker
           Message(s1) ==
             [ speaker |-> GetSpeakerName(s1, speaker_id),
               speaker_id |-> speaker_id,
               text |-> cleaned_text,
               start_time |-> Adjusted(chunk_start_time, seg.start),
               end_time |-> Adjusted(chunk_start_time, seg.end),
               color |-> DictGet(s1.speaker_color_map, speaker_id),
               chunk |-> chunk ]
       IN IF cleaned_text = << >>
          THEN BuildMessages(s, segs, i + 1, chunk_start_time, chunk, batch)
          \* the session after _get_speaker_color and the message are each
          \* computed once (the one-element sets) and then used
          ELSE CHOOSE r \in
                 { CHOOSE r1 \in
                     { BuildMessages([s1 EXCEPT !.messages = Append(@, msg)],
                                     segs, i + 1, chunk_start_time, chunk,
                                     Append(batch, msg)) :
                       msg \in {Message(s1)} } : TRUE :
                   s1 \in {GetSpeakerColor(s, speaker_id)} } : TRUE

(***************************************************************************)
(* Export.  A string is the sequence of its pieces: a word, a digit, a     *)
(* space, a line feed or a piece of punctuation.                           *)
(***************************************************************************)
\* sep.join(strings)
RECURSIVE Join(_, _)
Join(strings, sep) ==
  IF Len(strings) = 0 THEN << >>
  ELSE IF Len(strings) = 1 THEN strings[1]
  ELSE strings[1] \o << sep >> \o Join(Tail(strings), sep)

\* A text as a string: its words, one space between two of them
TextStr(text) == Join([i \in 1..Len(text) |-> << text[i] >>], " ")

DigitChars == << "0", "1", "2", "3", "4", "5", "6", "7", "8", "9" >>
\* str(n) for n >= 0
RECURSIVE Decimal(_)
Decimal(n) ==
  IF n < 10 THEN << DigitChars[n + 1] >>
  ELSE Decimal(n \div 10) \o << DigitChars[(n % 10) + 1] >>

\* f"{n:0{width}d}": the sign counts for the width
Padded(n, width) ==
  LET digits == Decimal(Abs(n))
      sign == IF n < 0 THEN << "-" >> ELSE << >>
      fill == width - Len(sign) - Len(digits)
  IN sign \o [i \in 1..(IF fill > 0 THEN fill ELSE 0) |-> "0"] \o digits

\* msg.speaker as a string: "Speaker 2", or the label itself
NameStr(name) ==
  IF name.num >= 0 THEN << name.prefix >> \o Decimal(name.num) ELSE << name.prefix >>

\* f"{current_speaker}: {' '.join(current_texts)}" (session.py:516, 524)
Paragraph(current_speaker, current_texts) ==
  NameStr(current_speaker) \o << ": " >>
    \o Join([i \in 1..Len(current_texts) |-> TextStr(current_texts[i])], " ")

\* An export that never merges: one paragraph per message
RECURSIVE ExportTxtLinesPerMessage(_, _, _, _, _)
ExportTxtLinesPerMessage(msgs, i, lines, current_speaker, current_texts) ==
  IF i > Len(msgs) THEN lines
  ELSE ExportTxtLinesPerMessage(
         msgs, i + 1,
         (IF i > 1 THEN Append(lines, << >>) ELSE lines)
           \o << Paragraph(msgs[i].speaker, << msgs[i].text >>) >>,
         current_speaker, current_texts)
\* The loop of export_txt and the lines after it (session.py:509-524)
RECURSIVE ExportTxtLines(_, _, _, _, _)
ExportTxtLines(msgs, i, lines, current_speaker, current_texts) ==
  IF i > Len(msgs)
  THEN IF current_texts # << >>
       THEN Append(lines, Paragraph(current_speaker, current_texts))
       ELSE lines
  ELSE IF msgs[i].speaker # current_speaker
       THEN ExportTxtLines(
              msgs, i + 1,
              IF current_texts # << >>
              THEN lines \o << Paragraph(current_speaker, current_texts), << >> >>
              ELSE lines,
              msgs[i].speaker, << msgs[i].text >>)
       ELSE ExportTxtLines(msgs, i + 1, lines, current_speaker,
                           Append(current_texts, msgs[i].text))

\* export_txt (session.py:507-525)
ExportTxt(msgs) == Join(ExportTxtLines(msgs, 1, << >>, None, << >>), "\n")

\* format_time (session.py:529-534), of a time in milliseconds
FormatTime(ms) ==
  LET hours == ms \div 3600000
      minutes == (ms % 3600000) \div 60000
      secs == (ms % 60000) \div 1000
      millis == ms % 1000
  IN Padded(hours, 2) \o << ":" >> \o Padded(minutes, 2) \o << ":" >>
       \o Padded(secs, 2) \o << "," >> \o Padded(millis, 3)

\* The four lines of one cue (session.py:538-541)
CueLines(i, msg) ==
  << Decimal(i),
     FormatTime(msg.start_time) \o << " --> " >> \o FormatTime(msg.end_time),
     << "[" >> \o NameStr(msg.speaker) \o << "] " >> \o TextStr(msg.text),
     << >> >>

RECURSIVE SrtLines(_, _)
SrtLines(msgs, i) ==
  IF i > Len(msgs) THEN << >> ELSE CueLines(i, msgs[i]) \o SrtLines(msgs, i + 1)

\* export_srt (session.py:527-542)
ExportSrt(msgs) == Join(SrtLines(msgs, 1), "\n")

(***************************************************************************)
(* Diarization fallback                                                    *)
(***************************************************************************)
SpeakerSet(segs) == {segs[i].speaker : i \in 1..Len(segs)}

\* A check that does not look at the provider
NeedsLocalDiarizationAnyProvider(s, segs) ==
  IF ~s.enable_diarization THEN FALSE
  ELSE IF Len(segs) <= 1 THEN FALSE
  ELSE IF Cardinality(SpeakerSet(segs)) > 1 THEN FALSE
  ELSE TRUE
\* _needs_local_diarization (session.py:481-505)
NeedsLocalDiarization(s, segs) ==
  IF s.provider_type = PARAKEET THEN FALSE
  ELSE IF ~s.enable_diarization THEN FALSE
  ELSE IF Len(segs) <= 1 THEN FALSE
  ELSE IF Cardinality(SpeakerSet(segs)) > 1 THEN FALSE
  ELSE TRUE

\* A lookup that takes a turn's end as outside the turn
GetSpeakerAtTimeHalfOpen(turns, t2) ==
  LET hits == {i \in 1..Len(turns) : 2 * turns[i].start <= t2 /\ t2 < 2 * turns[i].end}
  IN IF hits = {} THEN None
     ELSE turns[CHOOSE i \in hits : \A j \in hits : i <= j].speaker
\* DiarizationResult.get_speaker_at_time (diarizer.py:32-37) for the time
\* t2/2: the first turn with start <= time <= end, or None
GetSpeakerAtTime(turns, t2) ==
  LET hits == {i \in 1..Len(turns) : 2 * turns[i].start <= t2 /\ t2 <= 2 * turns[i].end}
  IN IF hits = {} THEN None
     ELSE turns[CHOOSE i \in hits : \A j \in hits : i <= j].speaker

\* The turn nearest to the time t2/2 by its start alone
FindClosestSpeakerByStart(turns, t2) ==
  IF Len(turns) = 0 THEN None
  ELSE LET best == CHOOSE i \in 1..Len(turns) :
                     \A j \in 1..Len(turns) :
                        \/ Abs(2 * turns[i].start - t2) < Abs(2 * turns[j].start - t2)
                        \/ Abs(2 * turns[i].start - t2) = Abs(2 * turns[j].start - t2) /\ i <= j
       IN turns[best].speaker
\* DiarizationResult._find_closest_speaker (diarizer.py:63-70) for the time
\* t2/2: min() keeps the first turn of least boundary distance
Min2(a, b) == IF a <= b THEN a ELSE b
BoundaryDist2(turn, t2) == Min2(Abs(2 * turn.start - t2), Abs(2 * turn.end - t2))
FindClosestSpeaker(turns, t2) ==
  IF Len(turns) = 0 THEN None
  ELSE LET best == CHOOSE i \in 1..Len(turns) :
                     \A j \in 1..Len(turns) :
                        \/ BoundaryDist2(turns[i], t2) < BoundaryDist2(turns[j], t2)
                        \/ BoundaryDist2(turns[i], t2) = BoundaryDist2(turns[j], t2) /\ i <= j
       IN turns[best].speaker

\* The merge of _apply_local_diarization (session.py:449-475), reached when
\* the local diarizer reported more than one speaker
MergeLocalDiarization(segs, turns) ==
  [ i \in 1..Len(segs) |->
      LET seg == segs[i]
          mid2 == seg.start + seg.end
          at == GetSpeakerAtTime(turns, mid2)
          speaker == IF at = None THEN FindClosestSpeaker(turns, mid2) ELSE at
      IN [seg EXCEPT !.speaker = IF speaker = None THEN seg.speaker ELSE speaker] ]

\* A transcription segment handed to merge_with_transcription is a dict: a
\* function from its keys to their values.  seg.get(key, default):
Get(seg, key, default) == IF key \in DOMAIN seg THEN seg[key] ELSE default

\* One turn of the loop of merge_with_transcription (diarizer.py:47-60): the
\* dict appended to `result` for seg, {**seg, "speaker": speaker or "Unknown"}
MergedSegment(turns, seg) ==
  LET start == Get(seg, "start", Get(seg, "Start (s)", 0))
      end == Get(seg, "end", Get(seg, "End (s)", 0))
      mid2 == start + end
      at == GetSpeakerAtTime(turns, mid2)
      speaker == IF at = None THEN FindClosestSpeaker(turns, mid2) ELSE at
  IN [k \in DOMAIN seg \cup {"speaker"} |->
        IF k # "speaker" THEN seg[k]
        ELSE IF speaker = None THEN Unknown ELSE speaker]
(***************************************************************************)
(* Cross-chunk speaker tracking                                            *)
(***************************************************************************)
\* seg.speaker or "Unknown" (session.py:390)
GroupKey(seg) == IF seg.speaker = None THEN Unknown ELSE seg.speaker

\* The keys of speaker_segments in insertion order (session.py:388-393)
RECURSIVE GroupOrder(_, _, _)
GroupOrder(segs, i, acc) ==
  IF i > Len(segs) THEN acc
  ELSE LET k == GroupKey(segs[i])
       IN GroupOrder(segs, i + 1,
                     IF \E j \in 1..Len(acc) : acc[j] = k THEN acc ELSE Append(acc, k))

GroupSegments(segs, k) == SelectSeq(segs, LAMBDA seg : GroupKey(seg) = k)

\* max(segs, key=lambda s: s.end - s.start) (session.py:399): the first
\* segment of greatest duration
Longest(segs) ==
  segs[CHOOSE i \in 1..Len(segs) :
         \A j \in 1..Len(segs) :
            \/ segs[i].end - segs[i].start > segs[j].end - segs[j].start
            \/ segs[i].end - segs[i].start = segs[j].end - segs[j].start /\ i <= j]

\* The range handed to _extract_speaker_embedding (session.py:400-402)
EmbeddingRange(segs, k) ==
  LET longest == Longest(GroupSegments(segs, k))
  IN [start |-> longest.start, end |-> longest.end]

\* session.py:407-409: a segment gets the global identity of its own label
\* when that label is a key of local_to_global
ApplyLocalToGlobal(segs, l2g) ==
  [ i \in 1..Len(segs) |->
      IF DictHas(l2g, segs[i].speaker)
      THEN [segs[i] EXCEPT !.speaker = DictGet(l2g, segs[i].speaker)]
      ELSE segs[i] ]

(***************************************************************************)
(* Inputs from outside the pipeline.  env, fixed at Init, holds the sets   *)
(* the client, the provider, the local diarizer and the embedding          *)
(* extractor draw from in a run.                                           *)
(***************************************************************************)
VARIABLES
  env,            \* the inputs of the run (never changes)
  heap,           \* the LiveTranscriptionSession objects, by address
  session,        \* live_transcribe's local `session` (an address)
  wsession,       \* worker.session (an address)
  running,        \* worker.running
  queue,          \* worker.queue
  wpc,            \* where the worker thread is in _process_loop
  item,           \* work_item of the worker thread
  wself,          \* `self` of the process_audio_chunk call in flight, or NoAddr
  diarArg,        \* the enable_diarization argument of the provider call in flight
  result,         \* result.segments of the call in flight
  groups,         \* keys of speaker_segments still to resolve
  l2g,            \* local_to_global
  sent,           \* the frames the latest sending step put on the websocket
  conn,           \* "open" until ws.receive() returns None
  hpc,            \* where the receive loop is: in ws.receive() or in a branch that
                  \* is one step ("receive"), or inside session.clear()
  chunk_counter,  \* live_transcribe's chunk_counter
  control,        \* number of other client messages handled
  hist            \* history of the run (not program state)

vars == << env, heap, session, wsession, running, queue, wpc, item, wself, diarArg,
           result, groups, l2g, sent, conn, hpc, chunk_counter, control, hist >>

Seg(text, start, end, speaker) ==
  [text |-> text, start |-> start, end |-> end, speaker |-> speaker,
   confidence |-> 9]

\* Answers of a provider for one chunk, as (voice, text, start, end) per
\* segment: nothing; one segment; two segments of one voice; two voices;
\* two voices, the first of which cleans to nothing.
ShapeNone == << >>
ShapeOne == << <<1, <<"hi">>, 0, 2>> >>
ShapeSame == << <<1, <<"hi">>, 0, 2>>, <<1, <<"there">>, 2, 3>> >>
ShapeTwo == << <<1, <<"hi">>, 0, 2>>, <<2, <<"yo", UNK>>, 2, 3>> >>
ShapeMute == << <<1, <<UNK>>, 0, 1>>, <<2, <<"yo">>, 1, 3>> >>
\* three segments, the first two of one voice
ShapeHi == << <<1, <<"Hi">>, 0, 1>>, <<1, <<"there">>, 1, 2>>, <<2, <<"Hello">>, 2, 3>> >>

Labelled(shape) ==
  [i \in 1..Len(shape) |->
     Seg(shape[i][2], shape[i][3], shape[i][4], Label("SPEAKER_", shape[i][1] - 1))]
Unlabelled(shape) ==
  [i \in 1..Len(shape) |-> Seg(shape[i][2], shape[i][3], shape[i][4], None)]

\* provider.transcribe_bytes(audio_bytes, enable_diarization=...):
\* DeepgramProvider._parse_response labels every segment SPEAKER_nn when
\* diarization is requested and leaves speaker None otherwise
\* (deepgram/provider.py:246-315); ParakeetProvider.transcribe labels the
\* segments only when diarization is requested and its diarizer is there
\* (parakeet/provider.py:114-139).
ProviderResults(ptype, diar) ==
  IF ~diar THEN {Unlabelled(sh) : sh \in env.shapes}
  ELSE IF ptype = DEEPGRAM THEN {Labelled(sh) : sh \in env.shapes}
  ELSE {Labelled(sh) : sh \in env.shapes}
       \cup {Unlabelled(sh) : sh \in env.shapes \cap env.nodiarizer}

Turn(speaker, start, end) == [speaker |-> speaker, start |-> start, end |-> end]
\* Answers of the local diarizer: DiarizationResult(segments, num_speakers)
DiarOne == [segments |-> << Turn(SPEAKER_00, 0, 3) >>, num_speakers |-> 1]
DiarTwo == [segments |-> << Turn(SPEAKER_01, 0, 1), Turn(SPEAKER_00, 2, 3) >>,
            num_speakers |-> 2]
\* diarize() raises
DiarRaises == [segments |-> << >>, num_speakers |-> -1]

\* similarity_threshold values of a config message; BadNumber is a value
\* float() rejects
BadNumber == <<0, 0>>
Models == {"nova-2"}
BogusProvider == "bogus"

\* The config messages: keys is the set of keys the message holds; the
\* value of an absent key is a fixed filler.
ConfigMessages(thresholds) ==
  { m \in [ keys : SUBSET {"enable_diarization", "similarity_threshold", "provider", "model"},
            enable_diarization : BOOLEAN,
            similarity_threshold : thresholds \cup {BadNumber},
            provider : ProviderTypes \cup {BogusProvider},
            model : Models ] :
      /\ "enable_diarization" \notin m.keys => m.enable_diarization = FALSE
      /\ "similarity_threshold" \notin m.keys => m.similarity_threshold = BadNumber
      /\ "provider" \notin m.keys => m.provider = BogusProvider
      /\ "model" \in m.keys => "provider" \in m.keys }

Config(keys, diar, thr, provider) ==
  [keys |-> keys, enable_diarization |-> diar, similarity_threshold |-> thr,
   provider |-> provider, model |-> "nova-2"]

Addrs == 0..2
NoAddr == -1
Sentinel == [chunk_start |-> 0, chunk_num |-> 0]
NoItem == [chunk_start |-> 0, chunk_num |-> -1]

\* An address no live object has
FreeAddr(h) == CHOOSE a \in Addrs : h[a] = NoSession /\ \A b \in Addrs : h[b] = NoSession => a <= b
\* Objects nothing refers to any more are freed
Collect(h, roots) == [a \in Addrs |-> IF a \in roots THEN h[a] ELSE NoSession]

Event(type, chunk, note, messages) ==
  [type |-> type, chunk |-> chunk, note |-> note, messages |-> messages]

\* websocket_handler.py:234-241
InitialProviderConfig(ptype) ==
  IF ptype = DEEPGRAM THEN [model |-> DefaultDeepgramModel, model_name |-> NoModel]
  ELSE [model |-> NoModel, model_name |-> NoModel]

\* websocket_handler.py:316-326
NewProviderConfig(ptype, has_model, model) ==
  IF ptype = PARAKEET
  THEN [model |-> NoModel, model_name |-> IF has_model THEN model ELSE NoModel]
  ELSE [model |-> IF has_model THEN model ELSE NoModel, model_name |-> NoModel]

\* No provider answer yet for the chunk in flight
NoResult == << Seg(<< >>, -1, -1, None) >>

NoObs == [chunk |-> 0, e |-> NoEmbedding, id |-> None, minted |-> FALSE,
          label |-> None, start |-> 0, end |-> 0, thr |-> <<0, 1>>]

InitHist ==
  [ enqueued |-> << >>,      \* the chunks put on the queue, in order
    starts |-> << >>,        \* the chunk_start the client sent with each of them
    provided |-> NoResult,   \* result.segments as the provider returned them, for
                             \* the chunk in flight or the one just published
    outcomes |-> << >>,      \* the transcription and error events the worker emitted
    started |-> {},          \* chunks whose processing began
    failed |-> {},           \* chunks whose processing raised
    queuedAtStop |-> {},     \* chunks in the queue when stop() was called
    fallbackInvoked |-> FALSE,  \* _apply_local_diarization called for the chunk in flight
    lastObs |-> NoObs,       \* the latest resolution of the chunk in flight
    obs |-> {},              \* the resolutions so far: [chunk, e, id, thr]
    minted |-> {} ]          \* identity strings minted on this connection

\* live_transcribe up to the `connected` event (websocket_handler.py:221-280)
InitWith(e) ==
  /\ env = e
  /\ \E diar \in e.diars, ptype \in e.providers :
       /\ heap = [a \in Addrs |->
                    IF a = 0
                    THEN NewSession(SessionId, diar, ptype, InitialProviderConfig(ptype))
                    ELSE NoSession]
       /\ sent = << Event("connected", 0, ptype, << >>) >>
  /\ session = 0
  /\ wsession = 0
  /\ running = TRUE
  /\ queue = << >>
  /\ wpc = "loop"
  /\ item = NoItem
  /\ wself = NoAddr
  /\ diarArg = FALSE
  /\ result = << >>
  /\ groups = << >>
  /\ l2g = << >>
  /\ conn = "open"
  /\ hpc = "receive"
  /\ chunk_counter = 0
  /\ control = 0
  /\ hist = InitHist

(***************************************************************************)
(* The worker thread: TranscriptionWorker._process_loop                    *)
(* (websocket_handler.py:80-157)                                           *)
(***************************************************************************)
WorkerLocals == << item, wself, diarArg, result, groups, l2g >>
HandlerVars == << env, session, wsession, running, conn, hpc, chunk_counter, control >>

\* ws.send under send_lock; on a closed socket it raises, which
\* TranscriptionWorker._safe_send swallows (websocket_handler.py:72-78)
WorkerSends(events) ==
  sent' = IF conn = "open" THEN events ELSE sent

\* A worker that sends an empty transcription along with the error
OutcomeEventsBoth(ok, chunk, batch, qsize) ==
  IF ok
  THEN << Event("debug", chunk, "done", << >>),
          Event("transcription", chunk, "", batch) >>
  ELSE << Event("error", chunk, "Transcription failed", << >>),
          Event("transcription", chunk, "", << >>) >>
\* What the worker emits for a chunk once process_audio_chunk has returned
\* `batch` (ok) or raised (websocket_handler.py:123-151)
OutcomeEvents(ok, chunk, batch, qsize) ==
  IF ok
  THEN << Event("debug", chunk, "done", << >>),
          Event("transcription", chunk, "", batch) >>
       \o IF qsize > 0 THEN << Event("status", 0, "queued", << >>) >> ELSE << >>
  ELSE << Event("error", chunk, "Transcription failed", << >>) >>

\* The history of the outcome events among `events`
Emitted(h, events) ==
  LET outs == SelectSeq(events, LAMBDA ev : ev.type \in {"transcription", "error"})
  IN [h EXCEPT !.outcomes = @ \o [i \in 1..Len(outs) |->
                                    [type |-> outs[i].type, chunk |-> outs[i].chunk,
                                     delivered |-> conn = "open"]]]

\* A queue that loses the item behind the one it hands out
QueueGetLossy(q) ==
  [item |-> Head(q), rest |-> IF Len(q) > 1 THEN Tail(Tail(q)) ELSE Tail(q)]
\* A queue that hands out the newest item
QueueGetNewest(q) == [item |-> q[Len(q)], rest |-> SubSeq(q, 1, Len(q) - 1)]
\* queue.get: the oldest item and what stays behind (websocket_handler.py:85)
QueueGet(q) == [item |-> Head(q), rest |-> Tail(q)]

\* `while self.running:` (line 82)
W_CheckRunning ==
  /\ wpc = "loop"
  /\ wpc' = IF running THEN "get" ELSE "exited"
  /\ hist' = [hist EXCEPT !.provided = NoResult]
  /\ UNCHANGED << heap, queue, sent, WorkerLocals, HandlerVars >>

\* queue.get(timeout=0.5) raises queue.Empty: continue (lines 85-87)
W_GetTimeout ==
  /\ wpc = "get"
  /\ queue = << >>
  /\ wpc' = "loop"
  /\ UNCHANGED << heap, queue, sent, hist, WorkerLocals, HandlerVars >>

\* queue.get returns None: break (lines 89-90)
W_GetSentinel ==
  /\ wpc = "get"
  /\ queue # << >>
  /\ QueueGet(queue).item = Sentinel
  /\ queue' = QueueGet(queue).rest
  /\ wpc' = "exited"
  /\ UNCHANGED << heap, sent, hist, WorkerLocals, HandlerVars >>

\* A worker that takes the next chunk off the queue while the one before is
\* still being processed, as a second worker thread would
W_GetChunkWhileBusy ==
  /\ wpc \in {"get", "provider", "fallback", "track"}
  /\ queue # << >>
  /\ QueueGet(queue).item # Sentinel
  /\ item' = QueueGet(queue).item
  /\ queue' = QueueGet(queue).rest
  /\ wself' = wsession
  /\ diarArg' = heap[wsession].enable_diarization
  /\ sent' = IF conn = "open"
             THEN << Event("debug", QueueGet(queue).item.chunk_num, "processing", << >>) >>
             ELSE sent
  /\ wpc' = "provider"
  /\ hist' = [hist EXCEPT !.started = @ \cup {QueueGet(queue).item.chunk_num},
                          !.fallbackInvoked = FALSE,
                          !.lastObs = NoObs]
  /\ UNCHANGED << heap, result, groups, l2g, HandlerVars >>
\* queue.get returns a chunk; the worker binds self.session, sends the
\* first debug event and enters process_audio_chunk up to the provider call,
\* which reads self.enable_diarization for its argument
\* (websocket_handler.py:92-110, session.py:295-315)
W_GetChunk ==
  /\ wpc = "get"
  /\ queue # << >>
  /\ QueueGet(queue).item # Sentinel
  /\ item' = QueueGet(queue).item
  /\ queue' = QueueGet(queue).rest
  /\ wself' = wsession
  /\ diarArg' = heap[wsession].enable_diarization
  /\ sent' = IF conn = "open"
             THEN << Event("debug", QueueGet(queue).item.chunk_num, "processing", << >>) >>
             ELSE sent
  /\ wpc' = "provider"
  /\ hist' = [hist EXCEPT !.started = @ \cup {QueueGet(queue).item.chunk_num},
                          !.fallbackInvoked = FALSE,
                          !.lastObs = NoObs]
  /\ UNCHANGED << heap, result, groups, l2g, HandlerVars >>

\* The rest of one loop iteration once process_audio_chunk has returned
\* `batch` and left the object at wself as `s` (websocket_handler.py:111-153);
\* h is the history up to there
WorkerPublishes(s, batch, h) ==
  /\ heap' = Collect([heap EXCEPT ![wself] = s], {session, wsession})
  /\ WorkerSends(OutcomeEvents(TRUE, item.chunk_num, batch, Len(queue)))
  /\ hist' = Emitted(h, OutcomeEvents(TRUE, item.chunk_num, batch, Len(queue)))
  /\ wpc' = "loop"
  /\ wself' = NoAddr
  /\ result' = << >>
  /\ groups' = << >>
  /\ l2g' = << >>
  /\ UNCHANGED << queue, item, diarArg, HandlerVars >>

\* An exception leaves process_audio_chunk: the error event, task_done, and
\* on to the next iteration (websocket_handler.py:145-153)
WorkerReportsError ==
  /\ heap' = Collect(heap, {session, wsession})
  /\ WorkerSends(OutcomeEvents(FALSE, item.chunk_num, << >>, Len(queue)))
  /\ hist' = Emitted([hist EXCEPT !.failed = @ \cup {item.chunk_num}],
                     OutcomeEvents(FALSE, item.chunk_num, << >>, Len(queue)))
  /\ wpc' = "loop"
  /\ wself' = NoAddr
  /\ result' = << >>
  /\ groups' = << >>
  /\ l2g' = << >>
  /\ UNCHANGED << queue, item, diarArg, HandlerVars >>

\* An empty answer that still goes through the tracker
ReturnsEmptyTracked(h) ==
  WorkerPublishes(GetOrCreateGlobalSpeakerId(heap[wself], NoEmbedding).s, << >>, h)
\* `return []` at session.py:321 and the rest of the iteration: the object
\* is left as it is
ReturnsEmpty(h) == WorkerPublishes(heap[wself], << >>, h)

\* base64.b64decode, the provider's construction or the provider call raises
W_ProviderRaises ==
  /\ wpc = "provider"
  /\ WorkerReportsError

\* The provider returns no segment: `return []` (session.py:319-321)
W_ProviderReturnsEmpty ==
  /\ wpc = "provider"
  /\ << >> \in ProviderResults(heap[wself].provider_type, diarArg)
  /\ ReturnsEmpty([hist EXCEPT !.provided = << >>])

\* A process_audio_chunk that hands the segments to the tracker although
\* self.enable_diarization is false
W_ProviderReturnsPlainTracked(res) ==
  /\ wpc = "provider"
  /\ res # << >>
  /\ ~heap[wself].enable_diarization
  /\ result' = res
  /\ groups' = GroupOrder(res, 1, << >>)
  /\ l2g' = << >>
  /\ wpc' = "track"
  /\ hist' = [hist EXCEPT !.provided = res]
  /\ UNCHANGED << heap, queue, sent, item, wself, diarArg, HandlerVars >>
\* The provider returns segments and self.enable_diarization is false at
\* line 324: straight to the messages (session.py:332-371)
W_ProviderReturnsPlain(res) ==
  /\ wpc = "provider"
  /\ res # << >>
  /\ ~heap[wself].enable_diarization
  /\ LET b == BuildMessages(heap[wself], res, 1, item.chunk_start, item.chunk_num, << >>)
     IN WorkerPublishes(b.s, b.batch, [hist EXCEPT !.provided = res])

\* The tracker begins: speaker_segments is grouped (session.py:387-396)
StartTracking(segs) ==
  /\ result' = segs
  /\ groups' = GroupOrder(segs, 1, << >>)
  /\ l2g' = << >>
  /\ wpc' = "track"

\* The provider returns segments, diarization is on at line 324 and
\* _needs_local_diarization says no: on to the tracker's first extraction
W_ProviderReturnsTrack(res) ==
  /\ wpc = "provider"
  /\ res # << >>
  /\ heap[wself].enable_diarization
  /\ ~NeedsLocalDiarization(heap[wself], res)
  /\ StartTracking(res)
  /\ hist' = [hist EXCEPT !.provided = res]
  /\ UNCHANGED << heap, queue, sent, item, wself, diarArg, HandlerVars >>

\* ... and _needs_local_diarization says yes: _apply_local_diarization is
\* called.  The local_diarizer property (session.py:150-176) finds out once
\* per object whether pyannote can be loaded; `avail` is the answer when the
\* object does not know yet.  With a diarizer the worker blocks in
\* diarize(); without, the result is kept and the tracker begins.
W_ProviderReturnsFallback(res, avail) ==
  /\ wpc = "provider"
  /\ res # << >>
  /\ heap[wself].enable_diarization
  /\ NeedsLocalDiarization(heap[wself], res)
  /\ LET known == heap[wself].local_diarization_available
         now == IF known = "None" THEN avail ELSE known
     IN /\ known # "None" => avail = known
        /\ heap' = [heap EXCEPT ![wself].local_diarization_available = now]
        /\ IF now = "True"
           THEN /\ result' = res
                /\ wpc' = "fallback"
                /\ UNCHANGED << groups, l2g >>
           ELSE StartTracking(res)
  /\ hist' = [hist EXCEPT !.fallbackInvoked = TRUE, !.provided = res]
  /\ UNCHANGED << queue, sent, item, wself, diarArg, HandlerVars >>

\* A fallback that relabels from the diarizer's turns however many speakers
\* it reports
W_FallbackReturnsMerged(d) ==
  /\ wpc = "fallback"
  /\ StartTracking(IF d.segments = << >> THEN result
                   ELSE MergeLocalDiarization(result, d.segments))
  /\ UNCHANGED << heap, queue, sent, hist, item, wself, diarArg, HandlerVars >>
\* self.local_diarizer.diarize returns or raises (session.py:435-479)
W_FallbackReturns(d) ==
  /\ wpc = "fallback"
  /\ StartTracking(IF d.num_speakers <= 1 THEN result
                   ELSE MergeLocalDiarization(result, d.segments))
  /\ UNCHANGED << heap, queue, sent, hist, item, wself, diarArg, HandlerVars >>

\* The history of one resolution
Observed(h, e, k, id, isNew) ==
  [h EXCEPT !.lastObs = [chunk |-> item.chunk_num, e |-> e, id |-> id,
                         minted |-> isNew, label |-> k,
                         start |-> EmbeddingRange(result, k).start,
                         end |-> EmbeddingRange(result, k).end,
                         thr |-> heap[wself].embedding_similarity_threshold],
            !.obs = IF e = NoEmbedding THEN @
                    ELSE @ \cup {[chunk |-> item.chunk_num, e |-> e, id |-> id,
                                  thr |-> heap[wself].embedding_similarity_threshold]},
            !.minted = IF isNew THEN @ \cup {id} ELSE @]

\* One turn of the loop over speaker_segments (session.py:397-404):
\* _extract_speaker_embedding returns e for the next label, and
\* _get_or_create_global_speaker_id resolves it.
W_Track(e) ==
  /\ wpc = "track"
  /\ Len(groups) > 1
  /\ LET k == Head(groups)
         r == GetOrCreateGlobalSpeakerId(heap[wself], e)
     IN /\ hist' = Observed(hist, e, k, r.id,
                            r.s.next_global_speaker_id # heap[wself].next_global_speaker_id)
        /\ heap' = [heap EXCEPT ![wself] = r.s]
        /\ groups' = Tail(groups)
        /\ l2g' = DictSet(l2g, k, r.id)
  /\ UNCHANGED << queue, sent, wpc, item, wself, diarArg, result, HandlerVars >>

\* The last turn of that loop; then the segments are relabelled, the
\* messages built and the batch returned and published
\* (session.py:406-411, 332-371)
W_TrackLast(e) ==
  /\ wpc = "track"
  /\ Len(groups) = 1
  /\ LET k == Head(groups)
         r == GetOrCreateGlobalSpeakerId(heap[wself], e)
         segs == ApplyLocalToGlobal(result, DictSet(l2g, k, r.id))
         b == BuildMessages(r.s, segs, 1, item.chunk_start, item.chunk_num, << >>)
         h == Observed(hist, e, k, r.id,
                       r.s.next_global_speaker_id # heap[wself].next_global_speaker_id)
     IN WorkerPublishes(b.s, b.batch, h)

(***************************************************************************)
(* The receive loop: live_transcribe (websocket_handler.py:282-439)        *)
(***************************************************************************)
WorkerVars == << wpc, item, wself, diarArg, result, groups, l2g >>
Roots(sess) == {sess} \cup (IF wself = NoAddr THEN {} ELSE {wself})

\* A switch that starts the new session with an empty log
SwitchedSessionNoMessages(s, ptype, has_model, model) ==
  [ NewSession(s.session_id, s.enable_diarization, ptype,
               NewProviderConfig(ptype, has_model, model))
    EXCEPT !.speaker_color_map = s.speaker_color_map,
           !.speaker_embeddings = s.speaker_embeddings,
           !.next_global_speaker_id = s.next_global_speaker_id ]
\* A switch that starts the new session without the known voices
SwitchedSessionNoVoices(s, ptype, has_model, model) ==
  [ NewSession(s.session_id, s.enable_diarization, ptype,
               NewProviderConfig(ptype, has_model, model))
    EXCEPT !.messages = s.messages,
           !.speaker_color_map = s.speaker_color_map,
           !.next_global_speaker_id = s.next_global_speaker_id ]
\* The session a provider or model change builds (lines 314-340)
SwitchedSession(s, ptype, has_model, model) ==
  [ NewSession(s.session_id, s.enable_diarization, ptype,
               NewProviderConfig(ptype, has_model, model))
    EXCEPT !.messages = s.messages,
           !.speaker_color_map = s.speaker_color_map,
           !.speaker_embeddings = s.speaker_embeddings,
           !.next_global_speaker_id = s.next_global_speaker_id ]

\* A config branch that answers an unknown provider name as the set-up of the
\* connection does (lines 228-231): with a new parakeet session
HandleConfigOrDefault(s, m) ==
  LET status == Event("status", 0, "Config updated", << >>)
  IN IF "provider" \in m.keys /\ m.provider \notin ProviderTypes
     THEN [ s |-> s, swap |-> TRUE,
            ns |-> NewSession(s.session_id, s.enable_diarization, PARAKEET,
                              NewProviderConfig(PARAKEET, FALSE, NoModel)),
            events |-> << Event("error", 0, "Unknown provider", << >>), status >> ]
     ELSE [ s |-> s, swap |-> FALSE, ns |-> NoSession, events |-> << status >> ]
\* The `config` branch (lines 292-364) on the session object s: `s` is that
\* object afterwards, `swap` tells whether worker.session and session are
\* rebound to the new object `ns`, `events` is what is sent.
HandleConfig(s, m) ==
  LET s1 == IF "enable_diarization" \in m.keys
            THEN [s EXCEPT !.enable_diarization = m.enable_diarization]
            ELSE s
      s2 == IF "similarity_threshold" \in m.keys
            THEN [s1 EXCEPT !.embedding_similarity_threshold = m.similarity_threshold]
            ELSE s1
      has_model == "model" \in m.keys
      provider_changed == m.provider # s2.provider_type
      model_changed == has_model /\ m.model # ConfigModel(s2.provider_config)
      status == Event("status", 0, "Config updated", << >>)
  IN IF "similarity_threshold" \in m.keys /\ m.similarity_threshold = BadNumber
     THEN \* float() raises; `except Exception` (lines 428-434)
          [ s |-> s1, swap |-> FALSE, ns |-> NoSession,
            events |-> << Event("error", 0, "Error", << >>) >> ]
     ELSE IF "provider" \notin m.keys
     THEN [ s |-> s2, swap |-> FALSE, ns |-> NoSession, events |-> << status >> ]
     ELSE IF m.provider \notin ProviderTypes
     THEN \* ProviderType(new_provider) raises ValueError (lines 355-359)
          [ s |-> s2, swap |-> FALSE, ns |-> NoSession,
            events |-> << Event("error", 0, "Unknown provider", << >>), status >> ]
     ELSE IF provider_changed \/ model_changed
     THEN [ s |-> s2, swap |-> TRUE,
            ns |-> SwitchedSession(s2, m.provider, has_model, m.model),
            events |-> << Event("provider_changed", 0, m.provider, << >>), status >> ]
     ELSE [ s |-> s2, swap |-> FALSE, ns |-> NoSession, events |-> << status >> ]

\* A config branch that rebinds `session` to the new object and leaves
\* worker.session as it is
H_ConfigKeepsWorker(m) ==
  /\ conn = "open"
  /\ control < env.maxControl
  /\ control' = control + 1
  /\ LET h == HandleConfig(heap[session], m)
         a == FreeAddr(heap)
     IN /\ sent' = h.events
        /\ IF h.swap
           THEN /\ heap' = Collect([heap EXCEPT ![session] = h.s, ![a] = h.ns],
                                   Roots(a) \cup {wsession})
                /\ session' = a
                /\ UNCHANGED wsession
           ELSE /\ heap' = [heap EXCEPT ![session] = h.s]
                /\ UNCHANGED << session, wsession >>
  /\ UNCHANGED << env, hpc, running, queue, conn, chunk_counter, hist, WorkerVars >>
H_Config(m) ==
  /\ conn = "open"
  /\ control < env.maxControl
  /\ control' = control + 1
  /\ LET h == HandleConfig(heap[session], m)
         a == FreeAddr(heap)
     IN /\ sent' = h.events
        /\ IF h.swap
           THEN /\ heap' = Collect([heap EXCEPT ![session] = h.s, ![a] = h.ns], Roots(a))
                /\ session' = a
                /\ wsession' = a
           ELSE /\ heap' = [heap EXCEPT ![session] = h.s]
                /\ UNCHANGED << session, wsession >>
  /\ UNCHANGED << env, hpc, running, queue, conn, chunk_counter, hist, WorkerVars >>

\* An add_chunk that waits until the worker is between two chunks
H_AudioChunkWhenIdle(chunk_start, has_data) ==
  /\ conn = "open"
  /\ wpc \notin {"provider", "fallback", "track"}
  /\ chunk_counter < env.maxChunks
  /\ chunk_counter' = chunk_counter + 1
  /\ IF has_data
     THEN /\ queue' = Append(queue, [chunk_start |-> chunk_start,
                                     chunk_num |-> chunk_counter + 1])
          /\ sent' = << Event("status", chunk_counter + 1, "queued", << >>) >>
          /\ hist' = [hist EXCEPT !.enqueued = Append(@, chunk_counter + 1),
                                  !.starts = Append(@, chunk_start)]
     ELSE /\ sent' = << Event("error", 0, "No audio data provided", << >>) >>
          /\ UNCHANGED << queue, hist >>
  /\ UNCHANGED << env, hpc, heap, session, wsession, running, conn, control, WorkerVars >>
\* The `audio_chunk` branch (lines 366-386) and add_chunk (lines 159-173)
H_AudioChunk(chunk_start, has_data) ==
  /\ conn = "open"
  /\ chunk_counter < env.maxChunks
  /\ chunk_counter' = chunk_counter + 1
  /\ IF has_data
     THEN /\ queue' = Append(queue, [chunk_start |-> chunk_start,
                                     chunk_num |-> chunk_counter + 1])
          /\ sent' = << Event("status", chunk_counter + 1, "queued", << >>) >>
          /\ hist' = [hist EXCEPT !.enqueued = Append(@, chunk_counter + 1),
                                  !.starts = Append(@, chunk_start)]
     ELSE /\ sent' = << Event("error", 0, "No audio data provided", << >>) >>
          /\ UNCHANGED << queue, hist >>
  /\ UNCHANGED << env, hpc, heap, session, wsession, running, conn, control, WorkerVars >>

\* An export that hands the log over and starts a new one
H_ExportAndReset(format) ==
  /\ conn = "open"
  /\ control < env.maxControl
  /\ control' = control + 1
  /\ sent' = IF format = "txt"
             THEN << Event("export_result", 0, format, ExportTxt(heap[session].messages)) >>
             ELSE IF format = "srt"
             THEN << Event("export_result", 0, format, ExportSrt(heap[session].messages)) >>
             ELSE << Event("error", 0, "Unknown export format", << >>) >>
  /\ heap' = [heap EXCEPT ![session].messages = << >>]
  /\ UNCHANGED << env, hpc, session, wsession, running, queue, conn, chunk_counter,
                  hist, WorkerVars >>
\* The `export` branch (lines 388-408); the content of the export_result
\* event is its `messages`
H_Export(format) ==
  /\ conn = "open"
  /\ control < env.maxControl
  /\ control' = control + 1
  /\ sent' = IF format = "txt"
             THEN << Event("export_result", 0, format, ExportTxt(heap[session].messages)) >>
             ELSE IF format = "srt"
             THEN << Event("export_result", 0, format, ExportSrt(heap[session].messages)) >>
             ELSE << Event("error", 0, "Unknown export format", << >>) >>
  /\ UNCHANGED << env, hpc, heap, session, wsession, running, queue, conn, chunk_counter,
                  hist, WorkerVars >>

\* A clear that starts the session over
ClearToNew(s) == NewSession(s.session_id, s.enable_diarization, s.provider_type,
                            s.provider_config)
\* LiveTranscriptionSession.clear (session.py:544-550)
Clear(s) ==
  [s EXCEPT !.messages = << >>,
            !.speaker_color_map = << >>,
            !.speaker_embeddings = << >>,
            !.next_global_speaker_id = 0]

\* The `clear` branch (lines 410-415)
H_Clear ==
  /\ conn = "open"
  /\ control < env.maxControl
  /\ control' = control + 1
  /\ heap' = [heap EXCEPT ![session] = Clear(@)]
  /\ sent' = << Event("status", 0, "Session cleared", << >>) >>
  /\ UNCHANGED << env, hpc, session, wsession, running, queue, conn, chunk_counter, hist,
                  WorkerVars >>

\* A frame that is no JSON, or a message of unknown type (lines 417-427)
H_Malformed(what) ==
  /\ conn = "open"
  /\ control < env.maxControl
  /\ control' = control + 1
  /\ sent' = << Event("error", 0, what, << >>) >>
  /\ UNCHANGED << env, hpc, heap, session, wsession, running, queue, conn, chunk_counter,
                  hist, WorkerVars >>

\* A stop() that neither clears the flag nor wakes the worker
StopOnlyJoins == UNCHANGED << running, queue >>
\* worker.stop() (lines 175-179); the join has a timeout and waits for
\* nothing the model holds
Stop ==
  /\ running' = FALSE
  /\ queue' = Append(queue, Sentinel)

\* ws.receive() returns None: break, and the finally clause calls
\* worker.stop() (lines 284-286, 436-439)
H_Disconnect ==
  /\ conn = "open"
  /\ conn' = "closed"
  /\ Stop
  /\ hist' = [hist EXCEPT !.queuedAtStop = {queue[i].chunk_num : i \in 1..Len(queue)}]
  /\ UNCHANGED << env, hpc, heap, session, wsession, sent, chunk_counter, control, WorkerVars >>

(***************************************************************************)
(* The system                                                              *)
(***************************************************************************)
Worker ==
  \/ W_CheckRunning
  \/ W_GetTimeout
  \/ W_GetSentinel
  \/ W_GetChunk
  \/ W_ProviderRaises
  \/ W_ProviderReturnsEmpty
  \/ /\ wpc = "provider"
     /\ \E res \in ProviderResults(heap[wself].provider_type, diarArg) :
           \/ W_ProviderReturnsPlain(res)
           \/ W_ProviderReturnsTrack(res)
           \/ \E avail \in {"True", "False"} : W_ProviderReturnsFallback(res, avail)
  \/ \E d \in env.diarResults : W_FallbackReturns(d)
  \/ \E e \in env.embeddings : W_Track(e)
  \/ \E e \in env.embeddings : W_TrackLast(e)

Handler ==
  \/ \E m \in env.configs : H_Config(m)
  \/ \E cs \in env.chunkStarts, has_data \in BOOLEAN : H_AudioChunk(cs, has_data)
  \/ \E format \in env.formats : H_Export(format)
  \/ H_Clear
  \/ \E what \in env.malformed : H_Malformed(what)
  \/ H_Disconnect

Next == Worker \/ Handler

(***************************************************************************)
(* Spec: the queue and the protocol, on few data                           *)
(***************************************************************************)
EnvProtocol ==
  [ shapes |-> {ShapeNone, ShapeSame},
    nodiarizer |-> {},
    diarResults |-> {DiarTwo, DiarRaises},
    embeddings |-> { <<1, 0>>, NoEmbedding },
    chunkStarts |-> {0},
    configs |-> { Config({"enable_diarization"}, FALSE, BadNumber, BogusProvider),
                  Config({"provider"}, FALSE, BadNumber, DEEPGRAM),
                  Config({"provider"}, FALSE, BadNumber, PARAKEET) },
    formats |-> {"txt"},
    malformed |-> {"Unknown message type"},
    diars |-> {TRUE},
    providers |-> {DEEPGRAM},
    maxChunks |-> MaxChunks,
    maxControl |-> MaxControl ]

Init == InitWith(EnvProtocol)
Spec == Init /\ [][Next]_vars

(***************************************************************************)
(* SpecTracker: the speaker identities, on a connection whose chunks hold  *)
(* one or two voices and whose embeddings are equal, orthogonal or halfway *)
(***************************************************************************)
\* chunks of the connection
TrackerChunks == 2
\* control messages of the connection
TrackerControl == 2

EnvTracker ==
  [ shapes |-> {ShapeNone, ShapeOne, ShapeSame, ShapeTwo, ShapeMute},
    nodiarizer |-> {},
    diarResults |-> {DiarOne},
    embeddings |-> { <<1, 0>>, <<0, 1>>, <<1, 1>>, NoEmbedding },
    chunkStarts |-> {0},
    configs |-> { Config({"enable_diarization"}, FALSE, BadNumber, BogusProvider),
                  Config({"similarity_threshold"}, FALSE, <<0, 1>>, BogusProvider),
                  Config({"provider"}, FALSE, BadNumber, PARAKEET) },
    formats |-> {"srt"},
    malformed |-> {"Invalid JSON message"},
    diars |-> {TRUE},
    providers |-> {DEEPGRAM},
    maxChunks |-> TrackerChunks,
    maxControl |-> TrackerControl ]

InitTracker == InitWith(EnvTracker)
SpecTracker == InitTracker /\ [][Next]_vars

(***************************************************************************)
(* SpecConfig: every config message, on a connection of few chunks         *)
(***************************************************************************)
\* chunks of the connection
ConfigChunks == 2
\* control messages of the connection
ConfigControl == 1

EnvConfig ==
  [ shapes |-> {ShapeNone, ShapeOne, ShapeSame, ShapeTwo},
    nodiarizer |-> {ShapeTwo},
    diarResults |-> {DiarTwo},
    embeddings |-> { <<1, 0>>, <<0, 1>> },
    chunkStarts |-> {0},
    configs |-> ConfigMessages({<<4, 5>>}),
    formats |-> {"txt", "pdf"},
    malformed |-> {"Unknown message type"},
    diars |-> BOOLEAN,
    providers |-> ProviderTypes,
    maxChunks |-> ConfigChunks,
    maxControl |-> ConfigControl ]

InitConfig == InitWith(EnvConfig)
SpecConfig == InitConfig /\ [][Next]_vars

(***************************************************************************)
(* SpecExport: the transcript and its exports, on chunks of one to three   *)
(* segments sent with offsets of an hour, of a hundred hours and below 0   *)
(***************************************************************************)
\* chunks of the connection
ExportChunks == 2
\* control messages of the connection
ExportControl == 2

EnvExport ==
  [ shapes |-> {ShapeNone, ShapeSame, ShapeMute, ShapeHi},
    nodiarizer |-> {},
    diarResults |-> {DiarOne},
    embeddings |-> { <<1, 0>>, <<0, 1>> },
    chunkStarts |-> {3661001, 360000000, -5000},
    configs |-> { Config({"provider"}, FALSE, BadNumber, BogusProvider),
                  Config({"provider"}, FALSE, BadNumber, PARAKEET) },
    formats |-> {"txt", "srt", "pdf"},
    malformed |-> {"Invalid JSON message", "Unknown message type"},
    diars |-> {TRUE},
    providers |-> {DEEPGRAM},
    maxChunks |-> ExportChunks,
    maxControl |-> ExportControl ]

InitExport == InitWith(EnvExport)
SpecExport == InitExport /\ [][Next]_vars

(***************************************************************************)
(* SpecSwitch: provider and model changes, one after the other, on a       *)
(* connection of one chunk                                                 *)
(***************************************************************************)
\* chunks of the connection
SwitchChunks == 1
\* control messages of the connection
SwitchControl == 3

\* A config message that names a provider and a model
ConfigWithModel(provider, model) ==
  [keys |-> {"provider", "model"}, enable_diarization |-> FALSE,
   similarity_threshold |-> BadNumber, provider |-> provider, model |-> model]

EnvSwitch ==
  [ shapes |-> {ShapeNone, ShapeSame, ShapeTwo},
    nodiarizer |-> {},
    diarResults |-> {DiarOne},
    embeddings |-> { <<1, 0>> },
    chunkStarts |-> {0},
    configs |-> { ConfigWithModel(PARAKEET, "nova-2"),
                  ConfigWithModel(DEEPGRAM, "nova-2"),
                  ConfigWithModel(DEEPGRAM, DefaultDeepgramModel),
                  Config({"provider"}, FALSE, BadNumber, DEEPGRAM),
                  Config({"provider"}, FALSE, BadNumber, BogusProvider),
                  Config({"enable_diarization"}, FALSE, BadNumber, BogusProvider) },
    formats |-> {"txt"},
    malformed |-> {"Unknown message type"},
    diars |-> {TRUE},
    providers |-> ProviderTypes,
    maxChunks |-> SwitchChunks,
    maxControl |-> SwitchControl ]

InitSwitch == InitWith(EnvSwitch)
SpecSwitch == InitSwitch /\ [][Next]_vars
(***************************************************************************)
(* SpecFallback: the local diarizer at work on chunks the cloud provider   *)
(* returned under one label                                                *)
(***************************************************************************)
\* chunks of the connection
FallbackChunks == 2
\* control messages of the connection
FallbackControl == 1

\* three segments of the second voice, with midpoints 1, 2 and 10
ShapeTalk == << <<2, <<"a">>, 0, 2>>, <<2, <<"b">>, 1, 3>>, <<2, <<"c">>, 9, 11>> >>

\* the diarizer heard nothing
DiarSilent == [segments |-> << >>, num_speakers |-> 0]
\* two turns that meet at 2, a time that lies in both
DiarOverlap == [segments |-> << Turn(SPEAKER_00, 0, 2), Turn(SPEAKER_01, 2, 8) >>,
                num_speakers |-> 2]
\* two turns with a gap; midpoint 2 is as far from the one as from the other
DiarGap == [segments |-> << Turn(SPEAKER_00, 0, 1), Turn(SPEAKER_01, 3, 4) >>,
            num_speakers |-> 2]

EnvFallback ==
  [ shapes |-> {ShapeNone, ShapeTalk},
    nodiarizer |-> {},
    diarResults |-> {DiarOne, DiarRaises, DiarSilent, DiarOverlap, DiarGap},
    embeddings |-> { <<1, 0>>, <<0, 1>> },
    chunkStarts |-> {0},
    configs |-> { Config({"enable_diarization"}, FALSE, BadNumber, BogusProvider) },
    formats |-> {"txt"},
    malformed |-> {"Unknown message type"},
    diars |-> {TRUE},
    providers |-> {DEEPGRAM},
    maxChunks |-> FallbackChunks,
    maxControl |-> FallbackControl ]

InitFallback == InitWith(EnvFallback)
SpecFallback == InitFallback /\ [][Next]_vars
(***************************************************************************)
(* SpecMerge: one call of DiarizationResult.merge_with_transcription       *)
(* (diarizer.py:39-61), outside any connection.  env holds the turns of    *)
(* the DiarizationResult and the transcription_segments of the call,       *)
(* result the list the call builds, wpc where the call is.                 *)
(***************************************************************************)
\* transcription segments of a call, at most
MergeLen == 2

\* The dicts the calls are made with: with the keys of a transcription
\* segment, with those of a row of the transcriber's table, without times,
\* and with a speaker already
MergeDicts ==
  { [start |-> 0, end |-> 2, text |-> "hi"],
    [start |-> 1, end |-> 3, text |-> "yo"],
    [start |-> 4, end |-> 6, text |-> "so", speaker |-> Label("Speaker", -1)],
    ("Start (s)" :> 9) @@ ("End (s)" :> 11) @@ ("Segment" :> "ok"),
    [text |-> "um"] }

\* The turns of the DiarizationResult, sorted by start (diarizer.py:337)
MergeTurns ==
  { << >>,
    << Turn(SPEAKER_00, 0, 5), Turn(SPEAKER_01, 5, 10) >>,
    << Turn(SPEAKER_01, 0, 2), Turn(SPEAKER_00, 0, 8) >>,
    DiarGap.segments,
    DiarOne.segments }

InitMerge ==
  /\ env \in [turns : MergeTurns,
              segments : UNION { [1..n -> MergeDicts] : n \in 0..MergeLen }]
  /\ result = << >>
  /\ wpc = "merge"
  /\ heap = [a \in Addrs |-> NoSession]
  /\ session = NoAddr
  /\ wsession = NoAddr
  /\ running = FALSE
  /\ queue = << >>
  /\ item = NoItem
  /\ wself = NoAddr
  /\ diarArg = FALSE
  /\ groups = << >>
  /\ l2g = << >>
  /\ sent = << >>
  /\ conn = "closed"
  /\ hpc = "receive"
  /\ chunk_counter = 0
  /\ control = 0
  /\ hist = InitHist

\* One turn of `for seg in transcription_segments` (diarizer.py:47-60)
M_Append ==
  /\ wpc = "merge"
  /\ Len(result) < Len(env.segments)
  /\ result' = Append(result, MergedSegment(env.turns, env.segments[Len(result) + 1]))
  /\ UNCHANGED << env, hpc, heap, session, wsession, running, queue, wpc, item, wself,
                  diarArg, groups, l2g, sent, conn, chunk_counter, control, hist >>

\* `return result` (diarizer.py:61)
M_Return ==
  /\ wpc = "merge"
  /\ Len(result) = Len(env.segments)
  /\ wpc' = "returned"
  /\ UNCHANGED << env, hpc, heap, session, wsession, running, queue, item, wself, diarArg,
                  result, groups, l2g, sent, conn, chunk_counter, control, hist >>

NextMerge == M_Append \/ M_Return
SpecMerge == InitMerge /\ [][NextMerge]_vars
(***************************************************************************)
(* SpecClear: session.clear() statement by statement.  The receive loop    *)
(* calls it on the object the worker's process_audio_chunk may be running  *)
(* on, and no lock is held on either side (websocket_handler.py:410-411,   *)
(* session.py:544-550), so the worker's steps fall between its statements. *)
(***************************************************************************)
\* chunks of the connection
ClearChunks == 2
\* control messages of the connection
ClearControl == 2

\* self.messages.clear() (session.py:546)
H_ClearMessages ==
  /\ conn = "open"
  /\ hpc = "receive"
  /\ control < env.maxControl
  /\ control' = control + 1
  /\ heap' = [heap EXCEPT ![session].messages = << >>]
  /\ hpc' = "color_map"
  /\ UNCHANGED << env, session, wsession, running, queue, sent, conn, chunk_counter, hist,
                  WorkerVars >>

\* self._speaker_color_map.clear() (session.py:547)
H_ClearColorMap ==
  /\ hpc = "color_map"
  /\ heap' = [heap EXCEPT ![session].speaker_color_map = << >>]
  /\ hpc' = "embeddings"
  /\ UNCHANGED << env, session, wsession, running, queue, sent, conn, chunk_counter, control,
                  hist, WorkerVars >>

\* self._speaker_embeddings.clear() (session.py:549).  With `raises` the
\* worker is in _match_speaker_to_known or just behind it on the same
\* object, holding an embedding: its loop over the dict's items finds the
\* size changed, or the update of the matched identity finds the key gone
\* (session.py:224, 245); the exception leaves process_audio_chunk and the
\* worker reports it (websocket_handler.py:145-153).
H_ClearEmbeddings(raises) ==
  /\ hpc = "embeddings"
  /\ hpc' = "counter"
  /\ IF raises
     THEN /\ wpc = "track"
          /\ wself = session
          /\ heap[session].speaker_embeddings # << >>
          /\ \E e \in env.embeddings : e # NoEmbedding
          /\ heap' = Collect([heap EXCEPT ![session].speaker_embeddings = << >>],
                             {session, wsession})
          /\ WorkerSends(OutcomeEvents(FALSE, item.chunk_num, << >>, Len(queue)))
          /\ hist' = Emitted([hist EXCEPT !.failed = @ \cup {item.chunk_num}],
                             OutcomeEvents(FALSE, item.chunk_num, << >>, Len(queue)))
          /\ wpc' = "loop"
          /\ wself' = NoAddr
          /\ result' = << >>
          /\ groups' = << >>
          /\ l2g' = << >>
          /\ UNCHANGED << item, diarArg >>
     ELSE /\ heap' = [heap EXCEPT ![session].speaker_embeddings = << >>]
          /\ UNCHANGED << sent, hist, WorkerVars >>
  /\ UNCHANGED << env, session, wsession, running, queue, conn, chunk_counter, control >>

\* self._next_global_speaker_id = 0 (session.py:550), and the status event
\* of the clear branch (websocket_handler.py:412-415)
H_ClearCounter ==
  /\ hpc = "counter"
  /\ heap' = [heap EXCEPT ![session].next_global_speaker_id = 0]
  /\ sent' = << Event("status", 0, "Session cleared", << >>) >>
  /\ hpc' = "receive"
  /\ UNCHANGED << env, session, wsession, running, queue, conn, chunk_counter, control,
                  hist, WorkerVars >>

EnvClear ==
  [ shapes |-> {ShapeNone, ShapeSame, ShapeTwo},
    nodiarizer |-> {},
    diarResults |-> {DiarOne},
    embeddings |-> { <<1, 0>>, <<0, 1>> },
    chunkStarts |-> {0},
    configs |-> { Config({"enable_diarization"}, FALSE, BadNumber, BogusProvider) },
    formats |-> {"txt"},
    malformed |-> {"Unknown message type"},
    diars |-> {TRUE},
    providers |-> {DEEPGRAM},
    maxChunks |-> ClearChunks,
    maxControl |-> ClearControl ]

InitClear == InitWith(EnvClear)

\* The receive loop takes the next message when it is in no branch
NextClear ==
  \/ Worker
  \/ /\ hpc = "receive"
     /\ \/ \E m \in env.configs : H_Config(m)
        \/ \E cs \in env.chunkStarts, has_data \in BOOLEAN : H_AudioChunk(cs, has_data)
        \/ \E format \in env.formats : H_Export(format)
        \/ \E what \in env.malformed : H_Malformed(what)
        \/ H_Disconnect
  \/ H_ClearMessages
  \/ H_ClearColorMap
  \/ \E raises \in BOOLEAN : H_ClearEmbeddings(raises)
  \/ H_ClearCounter

SpecClear == InitClear /\ [][NextClear]_vars
(***************************************************************************)
(* SpecOrder: config messages of every kind between the chunks             *)
(***************************************************************************)
\* chunks of the connection
OrderChunks == 2
\* control messages of the connection
OrderControl == 2

EnvOrder ==
  [ shapes |-> {ShapeNone, ShapeSame, ShapeTwo},
    nodiarizer |-> {},
    diarResults |-> {DiarOne},
    embeddings |-> { <<1, 0>> },
    chunkStarts |-> {0},
    configs |-> { Config({"enable_diarization"}, FALSE, BadNumber, BogusProvider),
                  Config({"similarity_threshold"}, FALSE, <<4, 5>>, BogusProvider),
                  Config({"provider"}, FALSE, BadNumber, DEEPGRAM),
                  Config({"enable_diarization", "similarity_threshold", "provider"},
                         TRUE, <<4, 5>>, PARAKEET) },
    formats |-> {"txt"},
    malformed |-> {"Unknown message type"},
    diars |-> {TRUE},
    providers |-> ProviderTypes,
    maxChunks |-> OrderChunks,
    maxControl |-> OrderControl ]

InitOrder == InitWith(EnvOrder)
SpecOrder == InitOrder /\ [][Next]_vars
\* The worker thread is scheduled as long as it can take a step: it is a
\* thread of its own (websocket_handler.py:66-70), and every call it blocks
\* in returns or raises.
FairSpec == Spec /\ WF_vars(Worker)

(***************************************************************************)
(* The queued worker                                                       *)
(***************************************************************************)
InFlight == wpc \in {"provider", "fallback", "track"}
OutcomesOf(c) == {i \in 1..Len(hist.outcomes) : hist.outcomes[i].chunk = c}
Queued(c) == \E i \in 1..Len(queue) : queue[i] # Sentinel /\ queue[i].chunk_num = c

\* C1: the outcome events come in the order the chunks were enqueued, none
\* skipped; a chunk is in flight only when every chunk enqueued before it
\* has had its outcome event emitted; and as long as the connection is open
\* every emitted outcome event went out on it.
C1_OutcomesInEnqueueOrder ==
  /\ Len(hist.outcomes) <= Len(hist.enqueued)
  /\ \A i \in 1..Len(hist.outcomes) : hist.outcomes[i].chunk = hist.enqueued[i]
  /\ InFlight => /\ Len(hist.outcomes) < Len(hist.enqueued)
                 /\ item.chunk_num = hist.enqueued[Len(hist.outcomes) + 1]
  /\ conn = "open" => \A i \in 1..Len(hist.outcomes) : hist.outcomes[i].delivered

\* Two chunks have their outcomes, an error and then a transcription, and
\* a third one is in flight
C1_Witness ==
  /\ Len(hist.outcomes) = 2
  /\ hist.outcomes[1].type = "error"
  /\ hist.outcomes[2].type = "transcription"
  /\ InFlight
  /\ conn = "open"

\* C2: a chunk whose processing failed has exactly one outcome event, an
\* error; the failure leaves the worker in its loop, running, with the queue
\* as it was; and a chunk that is queued once a chunk has failed gets its
\* outcome event unless the worker is stopped.
C2_FailureIsLocal ==
  /\ [](\A c \in hist.failed :
          /\ Cardinality(OutcomesOf(c)) = 1
          /\ \A i \in OutcomesOf(c) : hist.outcomes[i].type = "error")
  /\ [][hist'.failed # hist.failed =>
          /\ wpc' = "loop"
          /\ running' = running
          /\ queue' = queue]_vars
  /\ \A c \in 1..MaxChunks :
       (hist.failed # {} /\ Queued(c)) ~> (OutcomesOf(c) # {} \/ ~running)

\* A chunk failed and a later chunk, queued when it did, got its transcription
C2_Witness ==
  \E i, j \in 1..Len(hist.outcomes) :
    /\ i < j
    /\ hist.outcomes[i].type = "error"
    /\ hist.outcomes[j].type = "transcription"
    /\ hist.outcomes[j].chunk \in hist.started
    /\ running

\* C3: no chunk that was in the queue when stop() was called is ever
\* processed or gets an outcome event.
C3_StopDropsQueued ==
  \A c \in hist.queuedAtStop : c \notin hist.started /\ OutcomesOf(c) = {}

(***************************************************************************)
(* Configuration changes                                                   *)
(***************************************************************************)
\* C4: while a chunk is in flight, the object the worker processes it on
\* keeps its diarization flag, its similarity threshold and its provider,
\* and its diarization flag is the one the provider call was made with.
C4_InFlightConfigStable ==
  /\ [](InFlight => heap[wself].enable_diarization = diarArg)
  /\ [][(wself # NoAddr /\ wself' = wself) =>
          /\ heap'[wself].enable_diarization = heap[wself].enable_diarization
          /\ heap'[wself].embedding_similarity_threshold
               = heap[wself].embedding_similarity_threshold
          /\ heap'[wself].provider_type = heap[wself].provider_type]_vars

HeldModel(s) ==
  IF s.provider_type = PARAKEET THEN s.provider_config.model_name
  ELSE s.provider_config.model

\* The values of a config message are ones the handler accepts
Accepted(m) ==
  /\ "similarity_threshold" \in m.keys => m.similarity_threshold # BadNumber
  /\ "provider" \in m.keys => m.provider \in ProviderTypes

\* C6: once an accepted config message is handled, the session the worker
\* takes for the chunks it dequeues from then on holds every value the
\* message carried.
C6_ConfigValuesHeld ==
  [][\A m \in env.configs :
       (Accepted(m) /\ H_Config(m)) =>
         /\ "enable_diarization" \in m.keys =>
              heap'[wsession'].enable_diarization = m.enable_diarization
         /\ "similarity_threshold" \in m.keys =>
              heap'[wsession'].embedding_similarity_threshold = m.similarity_threshold
         /\ "provider" \in m.keys => heap'[wsession'].provider_type = m.provider
         /\ "model" \in m.keys => HeldModel(heap'[wsession']) = m.model]_vars

(***************************************************************************)
(* The diarization fallback                                                *)
(***************************************************************************)
\* The provider of session s is the cloud provider, its diarization is on,
\* and segs are several segments of one speaker label
FallbackCase(s, segs) ==
  /\ s.provider_type = DEEPGRAM
  /\ s.enable_diarization
  /\ Len(segs) > 1
  /\ \A i, j \in 1..Len(segs) : segs[i].speaker = segs[j].speaker

\* C10: when the provider call of a chunk returns segments,
\* _apply_local_diarization is called for the chunk exactly if the provider
\* is the cloud provider, diarization is enabled, there is more than one
\* segment and all segments carry the same speaker label.
C10_FallbackIff ==
  [][wpc = "provider" =>
       \A res \in ProviderResults(heap[wself].provider_type, diarArg) :
         ( \/ W_ProviderReturnsPlain(res)
           \/ W_ProviderReturnsTrack(res)
           \/ \E avail \in {"True", "False"} : W_ProviderReturnsFallback(res, avail) )
         => (hist'.fallbackInvoked <=> FallbackCase(heap[wself], res))]_vars

\* The fallback was called for the chunk in flight and the local diarizer
\* is at work on it
C10_Witness ==
  /\ wpc = "fallback"
  /\ hist.fallbackInvoked
  /\ FallbackCase(heap[wself], result)

(***************************************************************************)
(* The speaker identities                                                  *)
(***************************************************************************)
\* The step resolves an embedding of the chunk in flight
Resolves == wself # NoAddr /\ hist'.lastObs # hist.lastObs /\ hist'.lastObs.e # NoEmbedding

\* The known identities of positive similarity to e that no earlier one
\* equals and no other one exceeds in similarity to e
MostSimilar(embs, e) ==
  { b \in 1..Len(embs) :
      /\ Dot(e, embs[b].val) > 0
      /\ \A j \in 1..Len(embs) :
           /\ j < b => SimGreater(e, embs[b].val, embs[j].val)
           /\ j > b => ~SimGreater(e, embs[j].val, embs[b].val) }

\* cos(e1, e2) >= thr for two observed embeddings
CosAtLeast(e1, e2, thr) == SimAtLeast(e1, Stored(e2), thr)

\* C7 as stated: two chunks whose embeddings are as similar as the
\* threshold, the same at both resolutions, asks have the same identity.
C7_SimilarChunksSameIdentity ==
  \A o1, o2 \in hist.obs :
    (o1.chunk # o2.chunk /\ o1.thr = o2.thr /\ CosAtLeast(o1.e, o2.e, o1.thr))
      => o1.id = o2.id

\* C7, amended: an embedding whose greatest similarity to the stored vectors
\* of the known identities is positive and at least the threshold resolves
\* to the identity of the most similar stored vector, the earliest one among
\* equals; nothing is minted and that stored vector becomes the running
\* average.
C7_ResolvesToMostSimilar ==
  [][Resolves =>
       LET embs == heap[wself].speaker_embeddings
           e == hist'.lastObs.e
       IN \A b \in MostSimilar(embs, e) :
            SimAtLeast(e, embs[b].val, heap[wself].embedding_similarity_threshold) =>
              /\ hist'.lastObs.id = embs[b].key
              /\ ~hist'.lastObs.minted
              /\ heap'[wself] # NoSession =>
                   /\ DictKeys(heap'[wself].speaker_embeddings) = DictKeys(embs)
                   /\ DictGet(heap'[wself].speaker_embeddings, embs[b].key)
                        = Smooth(embs[b].val, e)]_vars

\* An embedding halfway between the stored vectors of two identities went
\* to the first of them
C7_Witness ==
  /\ hist.lastObs.e = <<1, 1>>
  /\ hist.lastObs.thr = DefaultThreshold
  /\ ~hist.lastObs.minted
  /\ hist.lastObs.id = GlobalId(0)
  /\ \E o \in hist.obs : o.id = GlobalId(1) /\ o.e = <<1, 0>> /\ o.chunk < hist.lastObs.chunk
  /\ \E o \in hist.obs : o.id = GlobalId(0) /\ o.e = <<0, 1>> /\ o.chunk < hist.lastObs.chunk

\* C8: an embedding below the threshold to every stored vector gets an
\* identity string never minted before on this connection, the embedding is
\* stored under it and the counter goes up by one; an embedding at or above
\* the threshold to some stored vector mints nothing.
C8_MintsUnusedIdentity ==
  [][Resolves =>
       LET embs == heap[wself].speaker_embeddings
           thr == heap[wself].embedding_similarity_threshold
           o == hist'.lastObs
           below == \A i \in 1..Len(embs) : ~SimAtLeast(o.e, embs[i].val, thr)
       IN /\ below =>
               /\ o.minted
               /\ o.id \notin hist.minted
               /\ heap'[wself] # NoSession =>
                    /\ DictGet(heap'[wself].speaker_embeddings, o.id) = Stored(o.e)
                    /\ heap'[wself].next_global_speaker_id
                         = heap[wself].next_global_speaker_id + 1
          /\ ~below => ~o.minted]_vars

\* C9: a message of the Nth identity created, GLOBAL_SPEAKER_<N-1>, has the
\* colour palette[(N-1) mod 8] and the name "Speaker N".
C9_NthIdentityColourAndName ==
  \A a \in Addrs :
    heap[a] # NoSession =>
      \A i \in 1..Len(heap[a].messages) :
        LET msg == heap[a].messages[i]
        IN msg.speaker_id.prefix = "GLOBAL_SPEAKER_" =>
             /\ msg.color = SPEAKER_COLORS[(msg.speaker_id.num % Len(SPEAKER_COLORS)) + 1]
             /\ msg.speaker = SpeakerName(msg.speaker_id.num + 1)

(***************************************************************************)
(* Session.ProcessChunk                                                    *)
(***************************************************************************)
\* The step in which the provider's answer `segs` comes back
ProviderAnswers(segs) == hist.provided = NoResult /\ hist'.provided = segs

TrackingState(s) ==
  << s.messages, s.speaker_color_map, s.speaker_embeddings, s.next_global_speaker_id >>

\* C11: when the provider returns zero segments for a chunk, the worker emits
\* for it one transcription event with an empty message list and no error
\* event, and the message log, the colour map, the embedding map and the
\* next-identity counter of every session object are as they were.
C11_EmptyResultEmptyEvent ==
  [][ProviderAnswers(<< >>) =>
        /\ hist'.outcomes = Append(hist.outcomes,
                                   [type |-> "transcription", chunk |-> item.chunk_num,
                                    delivered |-> conn = "open"])
        /\ conn = "open" =>
              /\ \E i \in 1..Len(sent') :
                    sent'[i] = Event("transcription", item.chunk_num, "", << >>)
              /\ \A i \in 1..Len(sent') : sent'[i].type # "error"
        /\ hist'.failed = hist.failed
        /\ hist'.minted = hist.minted
        /\ \A a \in Addrs :
              heap'[a] # NoSession => TrackingState(heap'[a]) = TrackingState(heap[a])
        /\ heap'[session'] = heap[session]
     ]_vars

\* The provider returned nothing for a chunk of a session that already has
\* messages and a known voice
C11_Witness ==
  /\ hist.provided = << >>
  /\ wpc = "loop"
  /\ conn = "open"
  /\ \E i \in 1..Len(sent) : sent[i].type = "transcription" /\ sent[i].messages = << >>
  /\ heap[session].messages # << >>
  /\ heap[session].speaker_embeddings # << >>
  /\ heap[session].next_global_speaker_id > 0

\* The step in which the worker emits the transcription event of a chunk
Publishes ==
  /\ Len(hist'.outcomes) = Len(hist.outcomes) + 1
  /\ hist'.outcomes[Len(hist'.outcomes)].type = "transcription"

\* The chunk_start the client sent with chunk c
SentStart(c) == hist.starts[CHOOSE i \in 1..Len(hist.enqueued) : hist.enqueued[i] = c]

\* The segments of the provider's answer whose cleaned text is not empty
Kept(segs) == SelectSeq(segs, LAMBDA seg : CleanTranscriptionText(seg.text) # << >>)

\* The messages of the transcription event among `events`
BatchOf(events) ==
  events[CHOOSE i \in 1..Len(events) : events[i].type = "transcription"].messages

Suffix(log, n) == SubSeq(log, n + 1, Len(log))

\* C12: the batch of a processed chunk is the sequence of messages the chunk
\* appended to the log of its session object, one per segment of the
\* provider's answer with non-empty cleaned text, in segment order, with that
\* text and with start_time and end_time the segment's start and end plus the
\* chunk_start the client sent with the chunk.
C12_BatchIsWhatWasAppended ==
  [][Publishes =>
        LET kept == Kept(hist'.provided)
            offset == SentStart(item.chunk_num)
            old == heap[wself].messages
            log == heap'[wself].messages
            Right(batch) ==
              /\ Len(batch) = Len(kept)
              /\ \A i \in 1..Len(kept) :
                    /\ batch[i].text = CleanTranscriptionText(kept[i].text)
                    /\ batch[i].start_time = offset + kept[i].start
                    /\ batch[i].end_time = offset + kept[i].end
                    /\ batch[i].chunk = item.chunk_num
        IN /\ conn = "open" => Right(BatchOf(sent'))
           /\ heap'[wself] # NoSession =>
                 /\ Len(log) >= Len(old)
                 /\ SubSeq(log, 1, Len(old)) = old
                 /\ Right(Suffix(log, Len(old)))
                 /\ conn = "open" => BatchOf(sent') = Suffix(log, Len(old))
     ]_vars

\* A chunk sent with an offset of an hour came back with a segment that cleans
\* to nothing and one that does not: the batch holds the one message, which
\* is the last of the log
C12_Witness ==
  /\ wpc = "loop"
  /\ conn = "open"
  /\ Len(hist.provided) = 2
  /\ Len(Kept(hist.provided)) = 1
  /\ \E i \in 1..Len(sent) :
        /\ sent[i].type = "transcription"
        /\ Len(sent[i].messages) = 1
        /\ sent[i].messages[1].start_time = 3661001 + hist.provided[2].start
        /\ heap[session].messages # << >>
        /\ heap[session].messages[Len(heap[session].messages)] = sent[i].messages[1]

(***************************************************************************)
(* Export                                                                  *)
(***************************************************************************)
\* The step in which the receive loop answers an export message of `format`
\* with an export_result event
Exports(format) ==
  /\ control' = control + 1
  /\ Len(sent') = 1
  /\ sent'[1].type = "export_result"
  /\ sent'[1].note = format

\* The last message of the maximal run of one speaker that starts at i
RunEnd(msgs, i) ==
  CHOOSE j \in i..Len(msgs) :
    /\ \A k \in i..j : msgs[k].speaker = msgs[i].speaker
    /\ j = Len(msgs) \/ msgs[j + 1].speaker # msgs[i].speaker

\* The maximal runs of consecutive messages of one speaker, from i on
RECURSIVE Runs(_, _)
Runs(msgs, i) ==
  IF i > Len(msgs) THEN << >>
  ELSE << [speaker |-> msgs[i].speaker,
           texts |-> [k \in 1..(RunEnd(msgs, i) - i + 1) |-> msgs[i + k - 1].text]] >>
       \o Runs(msgs, RunEnd(msgs, i) + 1)

\* name, colon, the texts with one space between two of them
RunStr(run) ==
  NameStr(run.speaker) \o << ": " >>
    \o Join([k \in 1..Len(run.texts) |-> TextStr(run.texts[k])], " ")

\* The paragraphs, one blank line between two of them
RECURSIVE Paragraphs(_)
Paragraphs(runs) ==
  IF Len(runs) = 0 THEN << >>
  ELSE IF Len(runs) = 1 THEN RunStr(runs[1])
  ELSE RunStr(runs[1]) \o << "\n", "\n" >> \o Paragraphs(Tail(runs))

SpeakersAndTexts(msgs) == [i \in 1..Len(msgs) |-> << msgs[i].speaker, msgs[i].text >>]

ExampleLog ==
  << << SpeakerName(1), << "Hi" >> >>,
     << SpeakerName(1), << "there" >> >>,
     << SpeakerName(2), << "Hello" >> >> >>
ExampleTxt ==
  << "Speaker ", "1", ": ", "Hi", " ", "there", "\n", "\n",
     "Speaker ", "2", ": ", "Hello" >>

\* C13: the content of a txt export is one paragraph per maximal run of
\* consecutive messages with the same speaker name, in log order, each the
\* name, a colon and the run's texts joined by single spaces, with one blank
\* line between two paragraphs; the log (Speaker 1, Hi), (Speaker 1, there),
\* (Speaker 2, Hello) gives the two paragraphs "Speaker 1: Hi there" and
\* "Speaker 2: Hello".
C13_TxtParagraphPerRun ==
  [][Exports("txt") =>
        /\ sent'[1].messages = Paragraphs(Runs(heap[session].messages, 1))
        /\ SpeakersAndTexts(heap[session].messages) = ExampleLog
             => sent'[1].messages = ExampleTxt
     ]_vars

\* The txt export of the example log has been sent
C13_Witness ==
  /\ SpeakersAndTexts(heap[session].messages) = ExampleLog
  /\ sent = << Event("export_result", 0, "txt", ExampleTxt) >>

\* The lines of a string: its pieces between the line feeds
RECURSIVE SplitLines(_, _, _)
SplitLines(str, i, line) ==
  IF i > Len(str) THEN << line >>
  ELSE IF str[i] = "\n" THEN << line >> \o SplitLines(str, i + 1, << >>)
  ELSE SplitLines(str, i + 1, Append(line, str[i]))

IsDigit(c) == \E d \in 1..10 : DigitChars[d] = c
DigitValue(c) == (CHOOSE d \in 1..10 : DigitChars[d] = c) - 1
TwoDigits(str, i) == 10 * DigitValue(str[i]) + DigitValue(str[i + 1])

\* str is HH:MM:SS,mmm and reads as the time ms (milliseconds)
IsClockOf(str, ms) ==
  /\ Len(str) = 12
  /\ str[3] = ":" /\ str[6] = ":" /\ str[9] = ","
  /\ \A i \in {1, 2, 4, 5, 7, 8, 10, 11, 12} : IsDigit(str[i])
  /\ TwoDigits(str, 4) < 60
  /\ TwoDigits(str, 7) < 60
  /\ ((TwoDigits(str, 1) * 60 + TwoDigits(str, 4)) * 60 + TwoDigits(str, 7)) * 1000
       + 100 * DigitValue(str[10]) + TwoDigits(str, 11) = ms

\* lines[4i-3 .. 4i] are the cue of message i
IsCueOf(lines, i, msg) ==
  /\ lines[4 * i - 3] = Decimal(i)
  /\ LET times == lines[4 * i - 2]
     IN /\ Len(times) = 25
        /\ IsClockOf(SubSeq(times, 1, 12), msg.start_time)
        /\ times[13] = " --> "
        /\ IsClockOf(SubSeq(times, 14, 25), msg.end_time)
  /\ lines[4 * i - 1] = << "[" >> \o NameStr(msg.speaker) \o << "] " >> \o TextStr(msg.text)
  /\ lines[4 * i] = << >>

\* C14: the content of an srt export holds one cue per message of the log,
\* numbered from 1 in log order: the number, the message's start and end
\* time as HH:MM:SS,mmm --> HH:MM:SS,mmm, the text after the speaker name in
\* square brackets, and an empty line; on an empty log it is the empty string.
C14_SrtCuePerMessage ==
  [][Exports("srt") =>
        LET log == heap[session].messages
            lines == SplitLines(sent'[1].messages, 1, << >>)
        IN IF log = << >> THEN sent'[1].messages = << >>
           ELSE /\ Len(lines) = 4 * Len(log)
                /\ \A i \in 1..Len(log) : IsCueOf(lines, i, log[i])
     ]_vars

\* C15: handling an export message for txt or srt leaves every session
\* object (log, colour map, embeddings, counter, configuration), the session
\* references, the work queue and the worker as they were, whatever the
\* session holds and whatever the worker is doing.
C15_ExportChangesNothing ==
  [][Exports("txt") \/ Exports("srt") =>
        /\ heap' = heap
        /\ session' = session
        /\ wsession' = wsession
        /\ queue' = queue
        /\ running' = running
        /\ UNCHANGED WorkerVars
     ]_vars

\* An export was answered while a chunk is in flight and another is queued
C15_Witness ==
  /\ Len(sent) = 1
  /\ sent[1].type = "export_result"
  /\ wpc = "provider"
  /\ queue # << >>
  /\ conn = "open"

(***************************************************************************)
(* The message log                                                         *)
(***************************************************************************)
IsPrefix(a, b) == Len(a) <= Len(b) /\ SubSeq(b, 1, Len(a)) = a

\* The step in which the receive loop handles a clear message
Clears ==
  /\ control' = control + 1
  /\ sent' = << Event("status", 0, "Session cleared", << >>) >>

\* The log of the session the connection holds
ActiveLog == heap[session].messages

HandlerReportsError ==
  /\ control' # control \/ chunk_counter' # chunk_counter
  /\ \E i \in 1..Len(sent') : sent'[i].type = "error"

ErrorNotes ==
  { "Invalid JSON message", "Unknown message type", "No audio data provided",
    "Unknown export format", "Unknown provider" }

\* C18: a frame that is no JSON, a message of unknown type, an audio_chunk
\* without data, an export of unknown format and a config with an unknown
\* provider name are each answered with an error event by a step that leaves
\* the connection open, the worker running, the queue, the log and the
\* speaker-tracking state as they were; and the worker is stopped only by the
\* step in which the client disconnects, which handles no message.
C18_NoMessageEndsTheSession ==
  /\ [][HandlerReportsError =>
          /\ conn' = "open"
          /\ running' = TRUE
          /\ session' = session
          /\ wsession' = wsession
          /\ queue' = queue
          /\ TrackingState(heap'[session]) = TrackingState(heap[session])
          /\ UNCHANGED WorkerVars
       ]_vars
  /\ [][\A note \in ErrorNotes :
          (control' # control \/ chunk_counter' # chunk_counter)
          /\ (\E i \in 1..Len(sent') : sent'[i].note = note)
          => HandlerReportsError]_vars
  /\ [][running # running' \/ conn # conn' =>
          /\ conn = "open" /\ conn' = "closed"
          /\ running /\ ~running'
          /\ control' = control
          /\ chunk_counter' = chunk_counter
          /\ sent' = sent]_vars

\* An audio_chunk without data and, as the latest message, a config with an
\* unknown provider were answered with error events; the connection is open,
\* the worker runs, and the session has the messages and the voice of the
\* chunk that was processed
C18_Witness ==
  /\ control = 2
  /\ Len(sent) = 2
  /\ sent[1] = Event("error", 0, "Unknown provider", << >>)
  /\ conn = "open"
  /\ running
  /\ ActiveLog # << >>
  /\ heap[session].speaker_embeddings # << >>
  /\ chunk_counter = 2
  /\ Len(hist.enqueued) = 1

(***************************************************************************)
(* No chunk is dropped                                                     *)
(***************************************************************************)
Enqueued(c) == \E i \in 1..Len(hist.enqueued) : hist.enqueued[i] = c

\* C19: a chunk leaves the queue only when the worker takes it for
\* processing, no chunk has more than one outcome event, and after any moment
\* there is a moment at which every chunk enqueued so far has its one outcome
\* event, delivered to the client, unless the connection is closed (the
\* worker thread keeps being scheduled and every call it blocks in returns or
\* raises).
C19_NoChunkDropped ==
  /\ [][\A c \in 1..MaxChunks :
          Queued(c) /\ ~Queued(c)' => wpc' = "provider" /\ item'.chunk_num = c]_vars
  /\ [](\A c \in 1..MaxChunks : Cardinality(OutcomesOf(c)) <= 1)
  /\ []<>(\/ conn = "closed"
          \/ \A c \in 1..MaxChunks :
               Enqueued(c) => \E i \in OutcomesOf(c) : hist.outcomes[i].delivered)

\* Every chunk of the connection was enqueued while an earlier one was still
\* queued or in flight, and each has got its outcome event on the open
\* connection
C19_Witness ==
  /\ conn = "open"
  /\ Len(hist.enqueued) = MaxChunks
  /\ Len(hist.outcomes) = MaxChunks
  /\ \A i \in 1..Len(hist.outcomes) : hist.outcomes[i].delivered
  /\ queue = << >>
  /\ wpc = "get"

\* The step in which add_chunk puts a chunk on the queue
Enqueues == Len(hist'.enqueued) = Len(hist.enqueued) + 1

\* C20: the step that enqueues a chunk appends it at the tail of the queue
\* and touches neither the worker nor a session object; and while the worker
\* is in the middle of a chunk (in the provider call, the fallback or the
\* tracker) the receive loop can take an audio_chunk, a config, an export and
\* a clear message (as far as the connection of the model has messages left).
C20_EnqueueNeverWaits ==
  /\ [][Enqueues =>
          /\ queue' = Append(queue, [chunk_start |-> hist'.starts[Len(hist'.starts)],
                                     chunk_num |-> chunk_counter'])
          /\ heap' = heap
          /\ UNCHANGED WorkerVars
       ]_vars
  /\ [](InFlight /\ conn = "open" =>
          /\ chunk_counter < env.maxChunks =>
                ENABLED (\E cs \in env.chunkStarts : H_AudioChunk(cs, TRUE))
          /\ control < env.maxControl =>
                /\ ENABLED (\E m \in env.configs : H_Config(m))
                /\ ENABLED (\E format \in env.formats : H_Export(format))
                /\ ENABLED H_Clear)

\* Chunk 2 was put on the queue after the worker had taken chunk 1, and the
\* worker is still in the provider call of chunk 1
C20_Witness ==
  /\ sent = << Event("status", 2, "queued", << >>) >>
  /\ wpc = "provider"
  /\ item.chunk_num = 1
  /\ Len(queue) = 1
  /\ queue[1].chunk_num = 2

(***************************************************************************)
(* The worker of a connection                                              *)
(***************************************************************************)
\* The chunks whose processing began and has no outcome yet
InProcess == {c \in hist.started : OutcomesOf(c) = {}}

\* C21: the connection has one worker from its set-up to its end: as long as
\* the connection is open the worker thread runs, a provider or model switch
\* leaves the thread, its queue and its running flag as they are and only
\* rebinds worker.session; and at any moment at most one chunk is being
\* processed, the one the worker thread holds.
C21_OneWorkerOneChunk ==
  /\ [](conn = "open" => running /\ wpc # "exited")
  /\ [][session' # session =>
          /\ UNCHANGED << WorkerVars, queue, running >>
          /\ wsession' = session']_vars
  /\ [](/\ Cardinality(InProcess) <= 1
        /\ InFlight <=> InProcess # {}
        /\ InFlight => InProcess = {item.chunk_num})

\* A switch was handled while chunk 1 was being processed on the replaced
\* session object and chunk 2 waited in the queue
C21_Witness ==
  /\ session # 0
  /\ wself = 0
  /\ InFlight
  /\ item.chunk_num = 1
  /\ Len(queue) = 1
  /\ queue[1].chunk_num = 2
  /\ sent[1].type = "provider_changed"

(***************************************************************************)
(* Who writes the transcript state                                         *)
(***************************************************************************)
\* The step handles a client message or the end of the connection
ReceiveLoopStep ==
  control' # control \/ chunk_counter' # chunk_counter \/ conn' # conn

\* C22: while the worker is processing a chunk, no step of the receive loop
\* changes the message log, the colour map, the embedding map or the identity
\* counter of a session object, whatever the client message is.
C22_OnlyWorkerWrites ==
  [][InFlight /\ ReceiveLoopStep =>
       \A a \in Addrs :
          heap[a] # NoSession /\ heap'[a] # NoSession =>
            TrackingState(heap'[a]) = TrackingState(heap[a])]_vars

(***************************************************************************)
(* The end of the worker                                                   *)
(***************************************************************************)
\* C23: once the connection has ended and stop() has been called, the worker
\* thread leaves its loop, wherever it was at that moment (provided every
\* call it blocks in returns); and once it has left the loop it stays out of
\* it and sends nothing more.
C23_StopTerminatesWorker ==
  /\ (conn = "closed") ~> (wpc = "exited")
  /\ [][wpc = "exited" =>
          /\ wpc' = "exited"
          /\ sent' = sent
          /\ hist'.outcomes = hist.outcomes]_vars

\* The worker has left its loop after finishing a chunk that was in process
\* when stop() was called (its outcome found the socket closed) and leaving
\* another chunk in the queue
C23_Witness ==
  /\ wpc = "exited"
  /\ conn = "closed"
  /\ \E i \in 1..Len(hist.outcomes) : ~hist.outcomes[i].delivered
  /\ \E c \in 1..MaxChunks : Queued(c)

(***************************************************************************)
(* The provider_changed event                                              *)
(***************************************************************************)
\* The model the provider of session s works with: the one its
\* provider_config names, or the provider's default
\* (providers/parakeet/provider.py:34, providers/deepgram/provider.py:69)
ParakeetDefaultModel == "mlx-community/parakeet-tdt-0.6b-v3"
ActiveModel(s) ==
  IF HeldModel(s) # NoModel THEN HeldModel(s)
  ELSE IF s.provider_type = PARAKEET THEN ParakeetDefaultModel
  ELSE DefaultDeepgramModel

\* Message m asks for another provider or another model than s has
AsksForChange(s, m) ==
  \/ m.provider # s.provider_type
  \/ "model" \in m.keys /\ m.model # ActiveModel(s)

HasEvent(events, type) == \E i \in 1..Len(events) : events[i].type = type

\* C24: when a config message with acceptable values is handled, a
\* provider_changed event is sent exactly if the session object is replaced,
\* and the session object is replaced exactly if the message names a known
\* provider and asks for another provider or another model than the active
\* ones; a message with an unknown provider is answered with an error event
\* and leaves the session object and its provider as they are.
C24_ProviderChangedIffSwitch ==
  [][\A m \in env.configs :
       ( /\ H_Config(m)
         /\ "similarity_threshold" \in m.keys => m.similarity_threshold # BadNumber ) =>
         /\ HasEvent(sent', "provider_changed") <=> session' # session
         /\ session' # session <=>
              /\ "provider" \in m.keys
              /\ m.provider \in ProviderTypes
              /\ AsksForChange(heap[session], m)
         /\ ("provider" \in m.keys /\ m.provider \notin ProviderTypes) =>
              /\ HasEvent(sent', "error")
              /\ session' = session
              /\ heap'[session].provider_type = heap[session].provider_type
              /\ heap'[session].provider_config = heap[session].provider_config]_vars

(***************************************************************************)
(* The tracker's embedding range                                           *)
(***************************************************************************)
\* The tracker handles the next label of the chunk in flight in this step
TrackerStep == wpc = "track" /\ hist'.lastObs # hist.lastObs

\* The segments of greatest duration among segs
LongestOnes(segs) ==
  { i \in 1..Len(segs) :
      \A j \in 1..Len(segs) : segs[i].end - segs[i].start >= segs[j].end - segs[j].start }

\* From the earliest start to the latest end of segs
UnionRange(segs) ==
  [ start |-> CHOOSE t \in {segs[i].start : i \in 1..Len(segs)} :
                 \A i \in 1..Len(segs) : t <= segs[i].start,
    end |-> CHOOSE t \in {segs[i].end : i \in 1..Len(segs)} :
               \A i \in 1..Len(segs) : t >= segs[i].end ]

\* C25: for each label of the chunk the embedding is extracted over the time
\* range of the longest segment under the label, and over the union of all
\* segments under the label when that longest segment is shorter than one
\* second (1000, in the unit of the segment times).
C25_EmbeddingRange ==
  [][TrackerStep =>
       LET segs == GroupSegments(result, hist'.lastObs.label)
           range == [start |-> hist'.lastObs.start, end |-> hist'.lastObs.end]
       IN \E i \in LongestOnes(segs) :
            range = IF segs[i].end - segs[i].start < 1000
                    THEN UnionRange(segs)
                    ELSE [start |-> segs[i].start, end |-> segs[i].end]]_vars

(***************************************************************************)
(* The identities on the messages                                          *)
(***************************************************************************)
\* local_to_global once the tracker step that publishes has handled the last
\* label
FinalLocalToGlobal == DictSet(l2g, Head(groups), hist'.lastObs.id)

\* C26: when the tracker has run on a chunk, each message built from the
\* chunk carries as speaker_id the identity the tracker resolved for the
\* label group of its segment ("Unknown" being the group of the segments
\* without a label), which is an identity minted by the tracker.
C26_MessagesCarryTrackerIdentity ==
  [][(wpc = "track" /\ Publishes /\ conn = "open") =>
       LET batch == BatchOf(sent')
           kept == Kept(result)
       IN /\ Len(batch) = Len(kept)
          /\ \A i \in 1..Len(batch) :
               /\ batch[i].speaker_id = DictGet(FinalLocalToGlobal, GroupKey(kept[i]))
               /\ batch[i].speaker_id \in hist'.minted]_vars

(***************************************************************************)
(* The fallback's result                                                   *)
(***************************************************************************)
\* C27: when the fallback is called for a chunk and the local diarizer is
\* not available, raises, or reports at most one speaker, the segments that
\* go on to the tracker are the provider's segments, unchanged; and a chunk
\* the fallback was called for ends in a transcription event, never in an
\* error event.
C27_FallbackKeepsSegments ==
  /\ [][(wpc = "provider" /\ hist'.fallbackInvoked /\ wpc' = "track") =>
          result' = hist'.provided]_vars
  /\ [][\A d \in env.diarResults :
          (W_FallbackReturns(d) /\ d.num_speakers <= 1) =>
             /\ result' = result
             /\ result' = hist.provided]_vars
  /\ [][(hist.fallbackInvoked /\ wpc \in {"fallback", "track"}) =>
          /\ hist'.failed = hist.failed
          /\ wpc' = "loop" =>
               /\ Publishes
               /\ hist'.outcomes[Len(hist'.outcomes)].chunk = item.chunk_num]_vars

\* The transcription event of a chunk has been sent whose three segments
\* the local diarizer, loaded and called, left under the provider's one
\* label: the tracker handled them as one group, whose first longest segment
\* starts at 0
C27_Witness ==
  /\ wpc = "loop"
  /\ hist.fallbackInvoked
  /\ wsession = 0
  /\ heap[0].local_diarization_available = "True"
  /\ hist.provided = Labelled(ShapeTalk)
  /\ hist.lastObs.label = SPEAKER_01
  /\ hist.lastObs.start = 0
  /\ heap[0].next_global_speaker_id = 1
  /\ HasEvent(sent, "transcription")
  /\ Len(BatchOf(sent)) = 3
  /\ \A i \in 1..3 : BatchOf(sent)[i].speaker_id = GlobalId(0)

\* The turns of `turns` that hold the time t2/2 within their closed interval
TurnsAt(turns, t2) ==
  {j \in 1..Len(turns) : 2 * turns[j].start <= t2 /\ t2 <= 2 * turns[j].end}

\* Twice the distance from the time t2/2 to the nearer boundary of turn
Distance2(turn, t2) ==
  LET ds == IF 2 * turn.start >= t2 THEN 2 * turn.start - t2 ELSE t2 - 2 * turn.start
      de == IF 2 * turn.end >= t2 THEN 2 * turn.end - t2 ELSE t2 - 2 * turn.end
  IN IF ds <= de THEN ds ELSE de

\* The turns of `turns` nearest to the time t2/2
NearestTurns(turns, t2) ==
  {j \in 1..Len(turns) :
     \A k \in 1..Len(turns) : Distance2(turns[j], t2) <= Distance2(turns[k], t2)}

First(S) == CHOOSE j \in S : \A k \in S : j <= k

\* C28: when the fallback is called and the local diarizer reports more than
\* one speaker, the segments that go on to the tracker are the provider's
\* segments in number, order, text, start, end and confidence, and the
\* speaker of each is that of the (first) turn holding the segment's
\* midpoint, or else that of the (first) turn of least distance from the
\* midpoint to its start or end.
C28_FallbackMergesByMidpoint ==
  [][\A d \in env.diarResults :
       (W_FallbackReturns(d) /\ d.num_speakers > 1) =>
          /\ Len(result') = Len(result)
          /\ \A i \in 1..Len(result) :
               LET mid2 == result[i].start + result[i].end
                   turns == d.segments
               IN /\ result'[i].text = result[i].text
                  /\ result'[i].start = result[i].start
                  /\ result'[i].end = result[i].end
                  /\ result'[i].confidence = result[i].confidence
                  /\ result'[i].speaker =
                       IF TurnsAt(turns, mid2) # {}
                       THEN turns[First(TurnsAt(turns, mid2))].speaker
                       ELSE turns[First(NearestTurns(turns, mid2))].speaker]_vars

\* The tracker is about to run on the three segments of one label that the
\* local diarizer's two turns have split: the first two go to the first turn
\* and the third, which lies after both turns, to the second
C28_Witness ==
  /\ wpc = "track"
  /\ hist.fallbackInvoked
  /\ hist.provided = Labelled(ShapeTalk)
  /\ Len(result) = 3
  /\ result[1].speaker = SPEAKER_00
  /\ result[2].speaker = SPEAKER_00
  /\ result[3].speaker = SPEAKER_01

(***************************************************************************)
(* merge_with_transcription                                                *)
(***************************************************************************)
\* Twice the midpoint of a transcription segment given as a dict
Midpoint2(seg) ==
  (IF "start" \in DOMAIN seg THEN seg["start"]
   ELSE IF "Start (s)" \in DOMAIN seg THEN seg["Start (s)"] ELSE 0)
  + (IF "end" \in DOMAIN seg THEN seg["end"]
     ELSE IF "End (s)" \in DOMAIN seg THEN seg["End (s)"] ELSE 0)

\* The times the lookups are tried at, doubled
LookupTimes2 == 0..24

\* C29: merge_with_transcription builds its result in the order of its
\* input, one dict per input dict and no more; each dict has the keys of its
\* input dict and the key "speaker", with the input's values under all other
\* keys; the speaker is that of the first turn whose closed interval holds
\* the segment's midpoint, else that of the first turn of least distance from
\* the midpoint to its start or end, else "Unknown" when there is no turn.
\* And get_speaker_at_time returns None for a time that lies in no turn.
C29_MergeWithTranscription ==
  /\ Len(result) <= Len(env.segments)
  /\ wpc = "returned" => Len(result) = Len(env.segments)
  /\ \A i \in 1..Len(result) :
       LET seg == env.segments[i]
           out == result[i]
           mid2 == Midpoint2(seg)
           turns == env.turns
       IN /\ DOMAIN out = DOMAIN seg \cup {"speaker"}
          /\ \A k \in DOMAIN seg \ {"speaker"} : out[k] = seg[k]
          /\ out["speaker"] =
               IF TurnsAt(turns, mid2) # {}
               THEN turns[First(TurnsAt(turns, mid2))].speaker
               ELSE IF turns # << >>
               THEN turns[First(NearestTurns(turns, mid2))].speaker
               ELSE Unknown
  /\ \A t2 \in LookupTimes2 :
       TurnsAt(env.turns, t2) = {} => GetSpeakerAtTime(env.turns, t2) = None

\* The call has returned two dicts for two segments: the first, whose
\* midpoint is the time at which the first turn ends and the second begins,
\* with its own speaker replaced by that of the first turn; the second,
\* which has no times, with the speaker of the turn that holds time 0
C29_Witness ==
  /\ wpc = "returned"
  /\ env.turns = << Turn(SPEAKER_00, 0, 5), Turn(SPEAKER_01, 5, 10) >>
  /\ Len(env.segments) = 2
  /\ Midpoint2(env.segments[1]) = 10
  /\ env.segments[1]["speaker"] = Label("Speaker", -1)
  /\ result[1]["speaker"] = SPEAKER_00
  /\ DOMAIN env.segments[2] = {"text"}
  /\ result[2]["speaker"] = SPEAKER_00

(***************************************************************************)
(* A label without an embedding                                            *)
(***************************************************************************)
\* C30: when _extract_speaker_embedding returns nothing for a label of the
\* chunk in flight, the label gets the identity GLOBAL_SPEAKER_<counter>,
\* newly minted, the counter goes up by one and the embedding map stays as
\* it is; the chunk is not recorded as failed, and the step in which the
\* worker leaves the tracker emits the transcription event of that chunk.
C30_NoEmbeddingStillMints ==
  /\ [][TrackerStep /\ hist'.lastObs.e = NoEmbedding =>
          /\ hist'.lastObs.id = GlobalId(heap[wself].next_global_speaker_id)
          /\ hist'.lastObs.minted
          /\ hist'.failed = hist.failed
          /\ heap'[wself] # NoSession =>
               /\ heap'[wself].next_global_speaker_id
                    = heap[wself].next_global_speaker_id + 1
               /\ heap'[wself].speaker_embeddings = heap[wself].speaker_embeddings]_vars
  /\ [][wpc = "track" /\ wpc' # "track" =>
          /\ Publishes
          /\ hist'.outcomes[Len(hist'.outcomes)].chunk = item.chunk_num
          /\ item.chunk_num \notin hist'.failed]_vars

\* The first chunk of the connection has been published with the one label
\* of its segments resolved without an embedding: its messages carry
\* GLOBAL_SPEAKER_00, the counter is 1 and the embedding map is empty
C30_Witness ==
  /\ wpc = "loop"
  /\ conn = "open"
  /\ hist.lastObs.e = NoEmbedding
  /\ hist.lastObs.minted
  /\ hist.lastObs.id = GlobalId(0)
  /\ HasEvent(sent, "transcription")
  /\ Len(hist.outcomes) = 1
  /\ heap[session].next_global_speaker_id = 1
  /\ heap[session].speaker_embeddings = << >>
  /\ heap[session].messages # << >>
  /\ \A i \in 1..Len(heap[session].messages) :
       heap[session].messages[i].speaker_id = GlobalId(0)

(***************************************************************************)
(* The embedding map                                                       *)
(***************************************************************************)
\* new = 0.8 * old + 0.2 * e for stored vectors old, new and an observed e
IsSmoothed(new, old, e) ==
  /\ new.d > 0
  /\ 5 * new.x * old.d = new.d * (4 * old.x + old.d * e[1])
  /\ 5 * new.y * old.d = new.d * (4 * old.y + old.d * e[2])

InLog(msg, log) == \E j \in 1..Len(log) : log[j] = msg

\* C32: every message of a transcription event the worker sends is in the
\* log of the session that is active after the event, also when the session
\* object was replaced while the chunk was in flight.
C32_SentMessagesAreLogged ==
  [][Publishes /\ conn = "open" =>
       \A i \in 1..Len(BatchOf(sent')) :
          InLog(BatchOf(sent')[i], heap'[session'].messages)]_vars

(***************************************************************************)
(* Colours and names in the log                                            *)
(***************************************************************************)
\* C33: in every reachable state any two messages of the active session's
\* log with the same speaker_id have the same colour and the same display
\* name, and the colour is the one the colour map holds for the speaker_id
\* (in the states in which the receive loop is not inside a call of clear).
C33_OneColourPerSpeaker ==
  LET log == heap[session].messages
      map == heap[session].speaker_color_map
  IN hpc = "receive" =>
     /\ \A i, j \in 1..Len(log) :
          log[i].speaker_id = log[j].speaker_id =>
            log[i].color = log[j].color /\ log[i].speaker = log[j].speaker
     /\ \A i \in 1..Len(log) :
          /\ DictHas(map, log[i].speaker_id)
          /\ DictGet(map, log[i].speaker_id) = log[i].color

(***************************************************************************)
(* A chunk that fails                                                      *)
(***************************************************************************)
\* The step in which the worker emits the error event of a chunk
ReportsError ==
  /\ Len(hist'.outcomes) = Len(hist.outcomes) + 1
  /\ hist'.outcomes[Len(hist'.outcomes)].type = "error"

\* C34: a chunk whose processing ends in an error event has changed nothing
\* of a session: it has resolved no label (so no identity was minted and no
\* embedding added or changed for it), and no log holds a message of it (so
\* no message was appended and no colour assigned for it).
C34_FailedChunkLeavesNoTrace ==
  [][ReportsError =>
       /\ hist.lastObs = NoObs
       /\ \A a \in Addrs :
            heap'[a] # NoSession =>
              \A i \in 1..Len(heap'[a].messages) :
                 heap'[a].messages[i].chunk # item.chunk_num]_vars

(***************************************************************************)
(* After a clear                                                           *)
(***************************************************************************)
\* The latest frames on the websocket are the acknowledgement of a clear
ClearAcknowledged == sent = << Event("status", 0, "Session cleared", << >>) >>

\* C35: when the acknowledgement of a clear is the latest the client has
\* been sent on the open connection, no step brings a message of a chunk
\* the client had sent before into the log of the active session, also when
\* the chunk is queued or in flight.
C35_ClearedChunksStayOut ==
  [][\A c \in 1..SwitchChunks :
       ( /\ ClearAcknowledged
         /\ conn = "open"
         /\ \E i \in 1..Len(hist.enqueued) : hist.enqueued[i] = c )
       => \A i \in 1..Len(heap'[session'].messages) :
            heap'[session'].messages[i].chunk # c]_vars

(***************************************************************************)
(* A config message answered with an error                                 *)
(***************************************************************************)
\* What a config message can set on session object s
Configuration(s) ==
  << s.enable_diarization, s.embedding_similarity_threshold,
     s.provider_type, s.provider_config >>

\* C36: a config message whose handling sends an error event leaves the
\* session object in place and its diarization flag, its similarity
\* threshold, its provider and its provider configuration as they were.
C36_FailedConfigAppliesNothing ==
  [][\A m \in env.configs :
       H_Config(m) /\ HasEvent(sent', "error") =>
         /\ session' = session
         /\ Configuration(heap'[session]) = Configuration(heap[session])]_vars

(***************************************************************************)
(* The configuration a chunk is processed under                            *)
(***************************************************************************)
\* The worker is inside process_audio_chunk for chunk c
ProcessingChunk(c) == wpc \in {"provider", "fallback", "track"} /\ item.chunk_num = c

\* The similarity thresholds a session has in SpecOrder
ThresholdsOfConfig == { DefaultThreshold, <<4, 5>> }

C38_LabelsGetDistinctIdentities ==
  [][(wpc = "track" /\ Publishes) =>
       \A i, j \in 1..Len(FinalLocalToGlobal) :
         ( /\ FinalLocalToGlobal[i].key # FinalLocalToGlobal[j].key
           /\ FinalLocalToGlobal[i].key # Unknown
           /\ FinalLocalToGlobal[j].key # Unknown )
         => FinalLocalToGlobal[i].val # FinalLocalToGlobal[j].val]_vars

(***************************************************************************)
(* The display names of the log                                            *)
(***************************************************************************)
\* C39: two messages of the active session's log that differ in their
\* speaker_id differ in their display name.
C39_DistinctIdsDistinctNames ==
  \A i, j \in 1..Len(ActiveLog) :
    ActiveLog[i].speaker_id # ActiveLog[j].speaker_id
    => ActiveLog[i].speaker # ActiveLog[j].speaker

(***************************************************************************)
(* A chunk processed with diarization off                                  *)
(***************************************************************************)
\* The speaker_id of the message built from segment seg without the tracker
PlainSpeakerId(seg) == IF seg.speaker = None THEN SPEAKER_00 ELSE seg.speaker

\* C40: when the provider call of a chunk returns and enable_diarization is
\* false on the chunk's session object, the chunk's processing ends in that
\* step: neither the fallback nor the tracker is invoked for it, the
\* embedding map and the next-identity counter of every session object are
\* as they were, and the messages of the transcription event carry, segment
\* by segment, the provider's label as speaker_id, or SPEAKER_00 where the
\* provider gave none.
C40_DiarizationOffIsPlain ==
  /\ [][(wpc = "provider" /\ wpc' # "provider" /\ ~heap[wself].enable_diarization) =>
          /\ wpc' = "loop"
          /\ ~hist'.fallbackInvoked
          /\ hist'.lastObs = NoObs
          /\ \A a \in Addrs : heap'[a] # NoSession =>
               /\ heap'[a].speaker_embeddings = heap[a].speaker_embeddings
               /\ heap'[a].next_global_speaker_id = heap[a].next_global_speaker_id
       ]_vars
  /\ [][(wpc = "provider" /\ ~heap[wself].enable_diarization
         /\ Publishes /\ conn = "open") =>
          LET batch == BatchOf(sent')
              kept == Kept(hist'.provided)
          IN /\ Len(batch) = Len(kept)
             /\ \A i \in 1..Len(batch) : batch[i].speaker_id = PlainSpeakerId(kept[i])
       ]_vars

\* A chunk whose provider call was made with diarization on and returned
\* two labels after a config message had turned diarization off: the second
\* label is on a message of the log, and no voice is known
C40_Witness ==
  /\ wpc = "loop"
  /\ conn = "open"
  /\ control = 1
  /\ ~heap[session].enable_diarization
  /\ HasEvent(sent, "transcription")
  /\ Len(BatchOf(sent)) = 2
  /\ BatchOf(sent)[2].speaker_id = SPEAKER_01
  /\ BatchOf(sent)[1].speaker_id = SPEAKER_00
  /\ hist.lastObs = NoObs
  /\ heap[session].speaker_embeddings = << >>
  /\ heap[session].next_global_speaker_id = 0
====
